---- MODULE Spec2Model ----
(***************************************************************************)
(* SpecAnalyzer (src/src/core/spec-analyzer.ts): the analysis of an        *)
(* OpenAPI document into a SpecAnalysis model.                             *)
(*                                                                         *)
(* Strings.  A string of the program is a sequence of tokens; a token is a *)
(* fixed piece of text written as a TLA+ string ("create", "Id", "/").     *)
(* The token alphabet is chosen so that every keyword the code searches    *)
(* for (create, update, trigger, "#/components/schemas/", ...) is one      *)
(* token and never straddles two tokens, so includes/endsWith/match on the *)
(* text are includes/endsWith/match on the token sequence.  The keys of a  *)
(* path item (get, post, parameters, ...) and the status codes are one     *)
(* token each and are written as the token itself.                         *)
(*                                                                         *)
(* Objects.  A JavaScript object is a record whose DOMAIN is the set of    *)
(* the properties it has ('summary' in obj is "summary" \in DOMAIN obj);   *)
(* an object whose key order matters (paths, a path item, schemas,         *)
(* properties, responses) is the sequence of its <<key, value>> entries in *)
(* Object.entries order.  The property $ref is written ref.                *)
(***************************************************************************)
EXTENDS Integers, Sequences, FiniteSets, TLC

\* ------------------------------------------------------------------------
\* Bounds of the model
\* ------------------------------------------------------------------------
\* largest number of declared parameters of an operation
MaxParams == 6
\* largest number of declared properties of a JSON request-body schema
MaxBodyProps == 6
\* largest number of declared responses of an operation
MaxResponses == 4
\* number of analyze()/analyzeWithContext() calls made on one analyzer
MaxCalls == 2
\* largest number of roots in one call of updateRoots
MaxRoots == 2
\* number of updateRoots calls made on one context manager
MaxUpdates == 2
\* number of trackOperation calls made on one context manager
MaxTracked == 160
\* number of concurrent calls of handleSamplingRequest
MaxSampling == 2
\* number of concurrent runs of the roots/listChanged handler
MaxHandlers == 2

\* ------------------------------------------------------------------------
\* JavaScript values
\* ------------------------------------------------------------------------
\* the values an expression such as  a || b?.includes(x)  can take
JsTrue == "true"
JsFalse == "false"
JsUndefined == "undefined"

\* Boolean -> JavaScript boolean
JsBool(b) == IF b THEN JsTrue ELSE JsFalse

\* ToBoolean: of the three values only true is truthy
Truthy(v) == v = JsTrue

\* a || b : a when a is truthy, b otherwise
JsOr(a, b) == IF Truthy(a) THEN a ELSE b

\* ------------------------------------------------------------------------
\* String operations
\* ------------------------------------------------------------------------
\* String.prototype.toLowerCase on one token
LowerTok(t) ==
  CASE t = "Create" -> "create"
    [] t = "CREATE" -> "create"
    [] t = "Update" -> "update"
    [] t = "Delete" -> "delete"
    [] t = "Trigger" -> "trigger"
    [] t = "SEND" -> "send"
    [] t = "Execute" -> "execute"
    [] t = "List" -> "list"
    [] t = "Re" -> "re"
    [] t = "Page" -> "page"
    [] t = "LIMIT" -> "limit"
    [] t = "Offset" -> "offset"
    [] t = "Cursor" -> "cursor"
    [] t = "Retry" -> "retry"
    [] t = "User" -> "user"
    [] t = "Profile" -> "profile"
    [] t = "Order" -> "order"
    [] t = "Account" -> "account"
    [] t = "Missing" -> "missing"
    [] t = "Id" -> "id"
    [] OTHER -> t

\* String.prototype.toUpperCase on one token
UpperTok(t) ==
  CASE t \in {"get", "Get", "GET"} -> "GET"
    [] t \in {"post", "Post", "POST"} -> "POST"
    [] t \in {"put", "PUT"} -> "PUT"
    [] t \in {"delete", "Delete", "DELETE"} -> "DELETE"
    [] t \in {"patch", "PATCH"} -> "PATCH"
    [] t \in {"head", "HEAD"} -> "HEAD"
    [] t \in {"options", "OPTIONS"} -> "OPTIONS"
    [] t \in {"trace", "TRACE"} -> "TRACE"
    [] t = "parameters" -> "PARAMETERS"
    [] t = "description" -> "DESCRIPTION"
    [] t = "servers" -> "SERVERS"
    [] OTHER -> t

\* String.prototype.toLowerCase
toLowerCase(s) == [i \in 1..Len(s) |-> LowerTok(s[i])]

\* String.prototype.includes
Includes(s, pat) ==
  \E i \in 0..(Len(s) - Len(pat)) : SubSeq(s, i + 1, i + Len(pat)) = pat

\* String.prototype.endsWith
EndsWith(s, pat) ==
  /\ Len(pat) <= Len(s)
  /\ SubSeq(s, Len(s) - Len(pat) + 1, Len(s)) = pat

\* Array.prototype.includes / membership of the elements of a sequence
Range(s) == {s[i] : i \in 1..Len(s)}

\* [...new Set(arr)]: the elements of arr once each, in order of first
\* occurrence
RECURSIVE Dedupe(_)
Dedupe(s) ==
  IF s = <<>> THEN <<>>
  ELSE LET front == Dedupe(SubSeq(s, 1, Len(s) - 1))
           last == s[Len(s)]
       IN IF last \in Range(front) THEN front ELSE Append(front, last)

\* Array.prototype.flat of a sequence of sequences
RECURSIVE Flatten(_)
Flatten(ss) ==
  IF ss = <<>> THEN <<>> ELSE Head(ss) \o Flatten(Tail(ss))

\* ------------------------------------------------------------------------
\* Objects
\* ------------------------------------------------------------------------
\* the value undefined where an object is expected: it has no property
Undefined == [jstype |-> "undefined"]

\* the value thrown by a property access on undefined or null
TypeError == [threw |-> "TypeError"]

\* the call that produced r ended in an exception
IsThrown(r) == "threw" \in DOMAIN r

\* ------------------------------------------------------------------------
\* SpecAnalyzer: the path/operation scanner
\* ------------------------------------------------------------------------
\* isOperation: a non-null object that has a summary, a description or a
\* responses property
isOperation(obj) ==
  /\ obj.jstype = "object"
  /\ \/ "summary" \in DOMAIN obj
     \/ "description" \in DOMAIN obj
     \/ "responses" \in DOMAIN obj

\* operation.summary?.toLowerCase().includes(word)
SummaryIncludes(operation, word) ==
  IF "summary" \in DOMAIN operation
  THEN JsBool(Includes(toLowerCase(operation.summary), <<word>>))
  ELSE JsUndefined

\* isActionEndpoint: the value of
\*   [...].includes(method.toUpperCase()) || (create || update || delete)
isActionEndpoint(method, operation) ==
  JsOr(JsBool(UpperTok(method) \in {"POST", "PUT", "PATCH", "DELETE"}),
       JsOr(SummaryIncludes(operation, "create"),
            JsOr(SummaryIncludes(operation, "update"),
                 SummaryIncludes(operation, "delete"))))

\* hasSideEffects: the value of  trigger || send || execute
hasSideEffects(operation) ==
  JsOr(SummaryIncludes(operation, "trigger"),
       JsOr(SummaryIncludes(operation, "send"),
            SummaryIncludes(operation, "execute")))

\* isResourceEndpoint comparing the key of the path item as written
isResourceEndpoint_KeyAsWritten(method, operation) ==
  /\ method = "GET"
  /\ ~Truthy(hasSideEffects(operation))

\* isResourceEndpoint:  method.toUpperCase() === 'GET' && !hasSideEffects
isResourceEndpoint(method, operation) ==
  /\ UpperTok(method) = "GET"
  /\ ~Truthy(hasSideEffects(operation))

\* getRequestBodySchema: requestBody.content?.['application/json']?.schema
getRequestBodySchema(requestBody) ==
  IF /\ "content" \in DOMAIN requestBody
     /\ "application/json" \in DOMAIN requestBody.content
     /\ "schema" \in DOMAIN requestBody.content["application/json"]
  THEN requestBody.content["application/json"].schema
  ELSE Undefined

\* (operation.parameters || []).length
ParamCount(operation) ==
  IF "parameters" \in DOMAIN operation THEN Len(operation.parameters) ELSE 0

\* Object.keys(operation.responses || {}).length
ResponseCount(operation) ==
  IF "responses" \in DOMAIN operation THEN Len(operation.responses) ELSE 0

\* calculateComplexity counting 3 responses as multiple response types
calculateComplexity_ThreeResponses(operation) ==
  LET c1 == 1 + (ParamCount(operation) \div 3)
      c2 == IF "requestBody" \in DOMAIN operation
            THEN LET schema == getRequestBodySchema(operation.requestBody)
                 IN IF /\ "properties" \in DOMAIN schema
                       /\ Len(schema.properties) > 5
                    THEN c1 + 1 + 1
                    ELSE c1 + 1
            ELSE c1
  IN IF ResponseCount(operation) >= 3 THEN c2 + 1 ELSE c2

\* calculateComplexity
calculateComplexity(operation) ==
  LET c0 == 1
      c1 == c0 + (ParamCount(operation) \div 3)
      c2 == IF "requestBody" \in DOMAIN operation
            THEN LET schema == getRequestBodySchema(operation.requestBody)
                 IN IF /\ "properties" \in DOMAIN schema
                       /\ Len(schema.properties) > 5
                    THEN c1 + 1 + 1
                    ELSE c1 + 1
            ELSE c1
      c3 == IF ResponseCount(operation) > 3 THEN c2 + 1 ELSE c2
  IN c3

\* the (path, method, operation) triples of spec.paths in the order of the
\* two nested Object.entries loops of analyzePaths
RECURSIVE PathEntries(_)
PathEntries(paths) ==
  IF paths = <<>> THEN <<>>
  ELSE LET path == Head(paths)[1]
           pathItem == Head(paths)[2]
       IN [i \in 1..Len(pathItem) |->
             [path |-> path, method |-> pathItem[i][1],
              operation |-> pathItem[i][2]]]
          \o PathEntries(Tail(paths))

\* the inner loop of analyzePaths assigning hasTools from the endpoint at
\* hand, whatever the earlier endpoints have set
ScanEntry_LastEndpointDecides(analysis, entry) ==
  IF isOperation(entry.operation)
  THEN LET endpoint ==
             [path |-> entry.path,
              method |-> UpperTok(entry.method),
              operation |-> entry.operation,
              isAction |-> isActionEndpoint(entry.method, entry.operation),
              isResource |-> isResourceEndpoint(entry.method, entry.operation),
              complexity |-> calculateComplexity(entry.operation)]
       IN [analysis EXCEPT
             !.endpoints = Append(@, endpoint),
             !.hasTools = Truthy(endpoint.isAction) \/ endpoint.complexity > 2]
  ELSE analysis

\* the body of the inner loop of analyzePaths for one entry
ScanEntry(analysis, entry) ==
  IF isOperation(entry.operation)
  THEN LET endpoint ==
             [path |-> entry.path,
              method |-> UpperTok(entry.method),
              operation |-> entry.operation,
              isAction |-> isActionEndpoint(entry.method, entry.operation),
              isResource |-> isResourceEndpoint(entry.method, entry.operation),
              complexity |-> calculateComplexity(entry.operation)]
       IN [analysis EXCEPT
             !.endpoints = Append(@, endpoint),
             !.hasTools = IF Truthy(endpoint.isAction) \/ endpoint.complexity > 2
                          THEN TRUE ELSE @]
  ELSE analysis

\* the loops of analyzePaths over the entries
RECURSIVE ScanEntries(_, _)
ScanEntries(analysis, entries) ==
  IF entries = <<>> THEN analysis
  ELSE ScanEntries(ScanEntry(analysis, Head(entries)), Tail(entries))

\* this.spec.paths || {}
SpecPaths(spec) == IF "paths" \in DOMAIN spec THEN spec.paths ELSE <<>>

\* analyzePaths; reading this.spec.paths throws when the document is null
\* or undefined
analyzePaths(spec, analysis) ==
  IF spec.jstype \in {"null", "undefined"} THEN TypeError
  ELSE ScanEntries(analysis, PathEntries(SpecPaths(spec)))

\* ------------------------------------------------------------------------
\* SpecAnalyzer: schemas and relationships
\* ------------------------------------------------------------------------
\* the value null of extractRefName; the capture (.+) is never empty
Null == <<>>

\* the token that spells  #/components/schemas/
SchemasPointer == "#/components/schemas/"

\* extractRefName: ref.match(/#\/components\/schemas\/(.+)/), the capture
\* being everything that follows the leftmost occurrence of the pattern
extractRefName(ref) ==
  LET starts == {i \in 1..(Len(ref) - 1) : ref[i] = SchemasPointer}
  IN IF starts = {} THEN Null
     ELSE LET first == CHOOSE i \in starts : \A j \in starts : i <= j
          IN SubSeq(ref, first + 1, Len(ref))

\* the loop of findSchemaRelationships without the self-reference test on
\* array items
PropertyRefs_ItemsKeepSelf(name, propSchema) ==
  LET direct ==
        IF "ref" \in DOMAIN propSchema /\ propSchema.ref # <<>>
        THEN LET refName == extractRefName(propSchema.ref)
             IN IF refName # Null /\ refName # name THEN <<refName>> ELSE <<>>
        ELSE <<>>
      items ==
        IF /\ "type" \in DOMAIN propSchema
           /\ propSchema.type = "array"
           /\ "items" \in DOMAIN propSchema
           /\ "ref" \in DOMAIN propSchema.items
           /\ propSchema.items.ref # <<>>
        THEN LET refName == extractRefName(propSchema.items.ref)
             IN IF refName # Null THEN <<refName>> ELSE <<>>
        ELSE <<>>
  IN direct \o items

\* the names pushed by one iteration of the loop of findSchemaRelationships
PropertyRefs(name, propSchema) ==
  LET direct ==
        IF "ref" \in DOMAIN propSchema /\ propSchema.ref # <<>>
        THEN LET refName == extractRefName(propSchema.ref)
             IN IF refName # Null /\ refName # name THEN <<refName>> ELSE <<>>
        ELSE <<>>
      items ==
        IF /\ "type" \in DOMAIN propSchema
           /\ propSchema.type = "array"
           /\ "items" \in DOMAIN propSchema
           /\ "ref" \in DOMAIN propSchema.items
           /\ propSchema.items.ref # <<>>
        THEN LET refName == extractRefName(propSchema.items.ref)
             IN IF refName # Null /\ refName # name THEN <<refName>> ELSE <<>>
        ELSE <<>>
  IN direct \o items

\* findSchemaRelationships
findSchemaRelationships(name, schema) ==
  LET relationships ==
        IF "properties" \in DOMAIN schema
        THEN Flatten([i \in 1..Len(schema.properties) |->
                        PropertyRefs(name, schema.properties[i][2])])
        ELSE <<>>
  IN Dedupe(relationships)

\* isCoreResource
isCoreResource(name, schema) ==
  \E pattern \in {"user", "account", "organization", "project", "product"} :
    Includes(toLowerCase(name), <<pattern>>)

\* this.spec.components?.schemas || {}
SpecSchemas(spec) ==
  IF "components" \in DOMAIN spec /\ "schemas" \in DOMAIN spec.components
  THEN spec.components.schemas
  ELSE <<>>

\* analyzeSchemas: one resource per entry of the schemas, in order
RECURSIVE PushResources(_, _)
PushResources(analysis, schemas) ==
  IF schemas = <<>> THEN analysis
  ELSE LET name == Head(schemas)[1]
           schema == Head(schemas)[2]
           resource == [name |-> name,
                        schema |-> schema,
                        isCore |-> isCoreResource(name, schema),
                        relationships |-> findSchemaRelationships(name, schema)]
       IN PushResources([analysis EXCEPT !.resources = Append(@, resource),
                                         !.hasResources = TRUE],
                        Tail(schemas))

\* analyzeSchemas setting hasResources after the loop instead of in it
analyzeSchemas_FlagAfterLoop(spec, analysis) ==
  IF IsThrown(analysis) THEN analysis
  ELSE [PushResources(analysis, SpecSchemas(spec)) EXCEPT !.hasResources = TRUE]

analyzeSchemas(spec, analysis) ==
  IF IsThrown(analysis) THEN analysis
  ELSE PushResources(analysis, SpecSchemas(spec))

\* prop.$ref?.includes(relatedResource) ||
\* prop.items?.$ref?.includes(relatedResource)
PropMentions(prop, relatedResource) ==
  \/ "ref" \in DOMAIN prop /\ Includes(prop.ref, relatedResource)
  \/ /\ "items" \in DOMAIN prop
     /\ "ref" \in DOMAIN prop.items
     /\ Includes(prop.items.ref, relatedResource)

\* determineRelationshipType: decided by the name of the first property
\* that mentions relatedResource; !propName holds when there is none and
\* when the name is the empty string
determineRelationshipType(schema, relatedResource) ==
  LET properties ==
        IF "properties" \in DOMAIN schema THEN schema.properties ELSE <<>>
      found == {i \in 1..Len(properties) :
                  PropMentions(properties[i][2], relatedResource)}
  IN IF found = {} THEN "unknown"
     ELSE LET first == CHOOSE i \in found : \A j \in found : i <= j
              propName == properties[first][1]
          IN IF propName = <<>> THEN "unknown"
             ELSE IF EndsWith(propName, <<"Id">>) \/ EndsWith(propName, <<"_id">>)
             THEN "belongs_to"
             ELSE IF EndsWith(propName, <<"s">>) \/ EndsWith(propName, <<"List">>)
                  THEN "has_many"
                  ELSE "has_one"

\* the records pushed by analyzeRelationships for one resource
ResourceRelationships(resource) ==
  [i \in 1..Len(resource.relationships) |->
     [from |-> resource.name,
      to |-> resource.relationships[i],
      type |-> determineRelationshipType(resource.schema,
                                         resource.relationships[i])]]

\* analyzeRelationships
analyzeRelationships(analysis) ==
  IF IsThrown(analysis) THEN analysis
  ELSE [analysis EXCEPT !.relationships =
          @ \o Flatten([i \in 1..Len(analysis.resources) |->
                          ResourceRelationships(analysis.resources[i])])]

\* ------------------------------------------------------------------------
\* SpecAnalyzer: workflow patterns
\* ------------------------------------------------------------------------
\* endpoint.path.match(/^\/([^\/]+)/): the first path segment, Null when
\* the path does not start with a slash followed by a segment
FirstSegment(path) ==
  IF Len(path) >= 2 /\ path[1] = "/" /\ path[2] # "/"
  THEN LET slashes == {i \in 2..Len(path) : path[i] = "/"}
           stop == IF slashes = {} THEN Len(path) + 1
                   ELSE CHOOSE i \in slashes : \A j \in slashes : i <= j
       IN SubSeq(path, 2, stop - 1)
  ELSE Null

\* the keys of the resourcePaths map of detectCRUDPatterns, in insertion
\* order
ResourceKeys(endpoints) ==
  Dedupe(SelectSeq([i \in 1..Len(endpoints) |-> FirstSegment(endpoints[i].path)],
                   LAMBDA r : r # Null))

\* the fixed steps of a crud workflow
CrudSteps(resource) ==
  << [action |-> "list", endpoint |-> <<"GET", " ", "/">> \o resource],
     [action |-> "create", endpoint |-> <<"POST", " ", "/">> \o resource],
     [action |-> "read",
      endpoint |-> <<"GET", " ", "/">> \o resource \o <<"/", "{id}">>],
     [action |-> "update",
      endpoint |-> <<"PUT", " ", "/">> \o resource \o <<"/", "{id}">>],
     [action |-> "delete",
      endpoint |-> <<"DELETE", " ", "/">> \o resource \o <<"/", "{id}">>] >>

\* detectCRUDPatterns naming the workflow after the resource alone
detectCRUDPatterns_NamedAsResource(endpoints) ==
  LET keys == ResourceKeys(endpoints)
      methods(resource) ==
        {endpoints[i].method : i \in {j \in 1..Len(endpoints) :
                                        FirstSegment(endpoints[j].path) = resource}}
      pattern(resource) ==
        IF {"GET", "POST", "PUT", "DELETE"} \subseteq methods(resource)
        THEN << [name |-> resource,
                 type |-> "crud",
                 steps |-> CrudSteps(resource)] >>
        ELSE <<>>
  IN Flatten([i \in 1..Len(keys) |-> pattern(keys[i])])

\* detectCRUDPatterns without the test methods.includes('DELETE')
detectCRUDPatterns_WithoutDelete(endpoints) ==
  LET keys == ResourceKeys(endpoints)
      methods(resource) ==
        {endpoints[i].method : i \in {j \in 1..Len(endpoints) :
                                        FirstSegment(endpoints[j].path) = resource}}
      pattern(resource) ==
        IF {"GET", "POST", "PUT"} \subseteq methods(resource)
        THEN << [name |-> resource \o <<"_crud">>,
                 type |-> "crud",
                 steps |-> CrudSteps(resource)] >>
        ELSE <<>>
  IN Flatten([i \in 1..Len(keys) |-> pattern(keys[i])])

\* detectCRUDPatterns
detectCRUDPatterns(endpoints) ==
  LET keys == ResourceKeys(endpoints)
      methods(resource) ==
        {endpoints[i].method : i \in {j \in 1..Len(endpoints) :
                                        FirstSegment(endpoints[j].path) = resource}}
      pattern(resource) ==
        IF {"GET", "POST", "PUT", "DELETE"} \subseteq methods(resource)
        THEN << [name |-> resource \o <<"_crud">>,
                 type |-> "crud",
                 steps |-> CrudSteps(resource)] >>
        ELSE <<>>
  IN Flatten([i \in 1..Len(keys) |-> pattern(keys[i])])

\* hasAuthenticationFlow without the test e.path.includes('auth')
hasAuthenticationFlow_LoginOrToken(endpoints) ==
  \E i \in 1..Len(endpoints) :
    \/ Includes(endpoints[i].path, <<"login">>)
    \/ Includes(endpoints[i].path, <<"token">>)

\* hasAuthenticationFlow
hasAuthenticationFlow(endpoints) ==
  \E i \in 1..Len(endpoints) :
    \/ Includes(endpoints[i].path, <<"auth">>)
    \/ Includes(endpoints[i].path, <<"login">>)
    \/ Includes(endpoints[i].path, <<"token">>)

\* buildAuthWorkflow
buildAuthWorkflow ==
  << [action |-> "authenticate", description |-> "Obtain credentials"],
     [action |-> "validate", description |-> "Validate credentials"],
     [action |-> "authorize", description |-> "Get access token"],
     [action |-> "refresh", description |-> "Refresh token if needed"] >>

\* hasPaginationParameters: params.some(p => [...].includes(
\* p.name.toLowerCase())), which stops at the first match and throws on the
\* first parameter before it that has no name (a Reference object)
RECURSIVE SomePaginationParam(_)
SomePaginationParam(params) ==
  IF params = <<>> THEN "false"
  ELSE IF "name" \notin DOMAIN Head(params) THEN "throw"
  ELSE IF toLowerCase(Head(params).name)
            \in {<<"page">>, <<"limit">>, <<"offset">>, <<"cursor">>}
       THEN "true"
       ELSE SomePaginationParam(Tail(params))

hasPaginationParameters(operation) ==
  SomePaginationParam(IF "parameters" \in DOMAIN operation
                      THEN operation.parameters ELSE <<>>)

\* hasPaginationPattern: endpoints.some(e => hasPaginationParameters(
\* e.operation)), which stops at the first endpoint that matches
RECURSIVE hasPaginationPattern(_)
hasPaginationPattern(endpoints) ==
  IF endpoints = <<>> THEN "false"
  ELSE LET first == hasPaginationParameters(Head(endpoints).operation)
       IN IF first = "false" THEN hasPaginationPattern(Tail(endpoints))
          ELSE first

\* buildPaginationWorkflow
buildPaginationWorkflow ==
  << [action |-> "initial_request", description |-> "Fetch first page"],
     [action |-> "check_more", description |-> "Check if more pages exist"],
     [action |-> "fetch_next", description |-> "Fetch next page"],
     [action |-> "aggregate", description |-> "Combine results"] >>

\* hasFileUploadPattern
hasFileUploadPattern(endpoints) ==
  \E i \in 1..Len(endpoints) :
    LET operation == endpoints[i].operation
    IN /\ "requestBody" \in DOMAIN operation
       /\ "content" \in DOMAIN operation.requestBody
       /\ "multipart/form-data" \in DOMAIN operation.requestBody.content

\* buildFileUploadWorkflow
buildFileUploadWorkflow ==
  << [action |-> "prepare", description |-> "Prepare file for upload"],
     [action |-> "validate", description |-> "Validate file requirements"],
     [action |-> "upload", description |-> "Upload file"],
     [action |-> "verify", description |-> "Verify upload success"] >>

\* detectWorkflows pushing the crud patterns after the other workflows
detectWorkflows_CrudLast(analysis) ==
  IF IsThrown(analysis) THEN analysis
  ELSE IF hasPaginationPattern(analysis.endpoints) = "throw" THEN TypeError
  ELSE
    LET crudPatterns == detectCRUDPatterns(analysis.endpoints)
        auth == IF hasAuthenticationFlow(analysis.endpoints)
                THEN << [name |-> <<"auth", "entication">>,
                         type |-> "auth",
                         steps |-> buildAuthWorkflow] >>
                ELSE <<>>
        pagination == IF hasPaginationPattern(analysis.endpoints) = "true"
                      THEN << [name |-> <<"pagination">>,
                               type |-> "navigation",
                               steps |-> buildPaginationWorkflow] >>
                      ELSE <<>>
        fileUpload == IF hasFileUploadPattern(analysis.endpoints)
                      THEN << [name |-> <<"fileUpload">>,
                               type |-> "multipart",
                               steps |-> buildFileUploadWorkflow] >>
                      ELSE <<>>
        workflows == analysis.workflows \o auth \o pagination \o fileUpload
                       \o crudPatterns
    IN [analysis EXCEPT !.workflows = workflows,
                        !.hasPrompts = IF Len(workflows) > 0 THEN TRUE ELSE @]

\* detectWorkflows; the exception of hasPaginationPattern leaves it
detectWorkflows(analysis) ==
  IF IsThrown(analysis) THEN analysis
  ELSE IF hasPaginationPattern(analysis.endpoints) = "throw" THEN TypeError
  ELSE
    LET crudPatterns == detectCRUDPatterns(analysis.endpoints)
        auth == IF hasAuthenticationFlow(analysis.endpoints)
                THEN << [name |-> <<"auth", "entication">>,
                         type |-> "auth",
                         steps |-> buildAuthWorkflow] >>
                ELSE <<>>
        pagination == IF hasPaginationPattern(analysis.endpoints) = "true"
                      THEN << [name |-> <<"pagination">>,
                               type |-> "navigation",
                               steps |-> buildPaginationWorkflow] >>
                      ELSE <<>>
        fileUpload == IF hasFileUploadPattern(analysis.endpoints)
                      THEN << [name |-> <<"fileUpload">>,
                               type |-> "multipart",
                               steps |-> buildFileUploadWorkflow] >>
                      ELSE <<>>
        workflows == analysis.workflows \o crudPatterns \o auth
                       \o pagination \o fileUpload
    IN [analysis EXCEPT !.workflows = workflows,
                        !.hasPrompts = IF Len(workflows) > 0 THEN TRUE ELSE @]

\* ------------------------------------------------------------------------
\* SpecAnalyzer: error patterns, capabilities, feature decisions
\* ------------------------------------------------------------------------
\* statusCode.startsWith(digit) for the status-code tokens
StartsWith(statusCode, digit) ==
  CASE digit = "4" -> statusCode \in {"400", "401", "404", "429", "4XX"}
    [] digit = "5" -> statusCode \in {"500", "503", "504", "5XX"}
    [] OTHER -> FALSE

\* isRecoverableError: the value of
\*   recoverableCodes.includes(statusCode) ||
\*   response.description?.toLowerCase().includes('retry')
isRecoverableError(statusCode, response) ==
  JsOr(JsBool(statusCode \in {"429", "503", "504"}),
       IF "description" \in DOMAIN response
       THEN JsBool(Includes(toLowerCase(response.description), <<"retry">>))
       ELSE JsUndefined)

\* operation.responses || {}
Responses(operation) ==
  IF "responses" \in DOMAIN operation THEN operation.responses ELSE <<>>

\* the patterns pushed for one endpoint without the test
\* statusCode.startsWith('5')
EndpointErrorPatterns_ClientErrorsOnly(endpoint) ==
  LET responses == Responses(endpoint.operation)
      pattern(entry) ==
        IF StartsWith(entry[1], "4")
        THEN << [statusCode |-> entry[1],
                 endpoint |-> <<endpoint.method, " ">> \o endpoint.path,
                 description |-> IF "description" \in DOMAIN entry[2]
                                 THEN entry[2].description ELSE <<>>,
                 recoverable |-> isRecoverableError(entry[1], entry[2])] >>
        ELSE <<>>
  IN Flatten([i \in 1..Len(responses) |-> pattern(responses[i])])

\* the patterns pushed by detectErrorPatterns for one endpoint
EndpointErrorPatterns(endpoint) ==
  LET responses == Responses(endpoint.operation)
      pattern(entry) ==
        IF StartsWith(entry[1], "4") \/ StartsWith(entry[1], "5")
        THEN << [statusCode |-> entry[1],
                 endpoint |-> <<endpoint.method, " ">> \o endpoint.path,
                 description |-> IF "description" \in DOMAIN entry[2]
                                 THEN entry[2].description ELSE <<>>,
                 recoverable |-> isRecoverableError(entry[1], entry[2])] >>
        ELSE <<>>
  IN Flatten([i \in 1..Len(responses) |-> pattern(responses[i])])

\* detectErrorPatterns
detectErrorPatterns(analysis) ==
  IF IsThrown(analysis) THEN analysis
  ELSE [analysis EXCEPT !.errorPatterns =
          @ \o Flatten([i \in 1..Len(analysis.endpoints) |->
                          EndpointErrorPatterns(analysis.endpoints[i])])]

\* r.headers?.['X-RateLimit-Limit'] || r.headers?.['RateLimit-Limit']
HasRateLimitHeader(response) ==
  /\ "headers" \in DOMAIN response
  /\ \/ "X-RateLimit-Limit" \in DOMAIN response.headers
     \/ "RateLimit-Limit" \in DOMAIN response.headers

\* analyzeCapabilities; hasPaginationParameters cannot throw here, as
\* detectWorkflows has evaluated it on the same endpoints before
analyzeCapabilities(spec, analysis) ==
  IF IsThrown(analysis) THEN analysis
  ELSE
    LET endpoints == analysis.endpoints
        somePath(word) ==
          \E i \in 1..Len(endpoints) : Includes(endpoints[i].path, <<word>>)
    IN [analysis EXCEPT !.capabilities =
         [@ EXCEPT
           !.hasPagination = hasPaginationPattern(endpoints) = "true",
           !.hasBatchOperations = somePath("batch") \/ somePath("bulk"),
           !.hasWebhooks = "webhooks" \in DOMAIN spec \/ somePath("webhook"),
           !.hasAsyncOperations =
              \E i \in 1..Len(endpoints) :
                \E k \in 1..Len(Responses(endpoints[i].operation)) :
                  Responses(endpoints[i].operation)[k][1] = "202",
           !.hasAuthentication =
              /\ "components" \in DOMAIN spec
              /\ "securitySchemes" \in DOMAIN spec.components,
           !.hasRateLimiting =
              \E i \in 1..Len(endpoints) :
                \E k \in 1..Len(Responses(endpoints[i].operation)) :
                  HasRateLimitHeader(Responses(endpoints[i].operation)[k][2])]]

\* determineMCPFeatures with analysis.workflows.length >= 2
determineMCPFeatures_TwoWorkflowsSuffice(analysis) ==
  IF IsThrown(analysis) THEN analysis
  ELSE
    LET sampling ==
          IF Len(analysis.workflows) >= 2
             \/ analysis.capabilities.hasAsyncOperations
          THEN [requiresSampling |-> TRUE] @@ analysis ELSE analysis
        context ==
          IF Len(analysis.relationships) > 3
          THEN [requiresContextManagement |-> TRUE] @@ sampling ELSE sampling
        errors ==
          IF Len(analysis.errorPatterns) > 5
          THEN [requiresErrorIntelligence |-> TRUE] @@ context ELSE context
    IN errors

\* determineMCPFeatures: each flag is set to true or left absent
determineMCPFeatures(analysis) ==
  IF IsThrown(analysis) THEN analysis
  ELSE
    LET sampling ==
          IF Len(analysis.workflows) > 2
             \/ analysis.capabilities.hasAsyncOperations
          THEN [requiresSampling |-> TRUE] @@ analysis ELSE analysis
        context ==
          IF Len(analysis.relationships) > 3
          THEN [requiresContextManagement |-> TRUE] @@ sampling ELSE sampling
        errors ==
          IF Len(analysis.errorPatterns) > 5
          THEN [requiresErrorIntelligence |-> TRUE] @@ context ELSE context
    IN errors

\* the object literal analyze() starts from
EmptyAnalysis ==
  [hasTools |-> FALSE,
   hasResources |-> FALSE,
   hasPrompts |-> FALSE,
   endpoints |-> <<>>,
   resources |-> <<>>,
   workflows |-> <<>>,
   relationships |-> <<>>,
   errorPatterns |-> <<>>,
   capabilities |-> [hasPagination |-> FALSE,
                     hasBatchOperations |-> FALSE,
                     hasWebhooks |-> FALSE,
                     hasAsyncOperations |-> FALSE,
                     hasAuthentication |-> FALSE,
                     hasRateLimiting |-> FALSE]]

\* analyze: the model it returns, or the exception that leaves it
analyze(spec) ==
  determineMCPFeatures(
    analyzeCapabilities(spec,
      detectErrorPatterns(
        analyzeRelationships(
          detectWorkflows(
            analyzeSchemas(spec,
              analyzePaths(spec, EmptyAnalysis)))))))

\* context.roots?.some(r => r.name.includes('test')), which throws on the
\* first root before a match that has no name
RECURSIVE SomeTestRoot(_)
SomeTestRoot(roots) ==
  IF roots = <<>> THEN "false"
  ELSE IF "name" \notin DOMAIN Head(roots) THEN "throw"
  ELSE IF Includes(Head(roots).name, <<"test">>) THEN "true"
       ELSE SomeTestRoot(Tail(roots))

\* analyzeWithContext testing the name of the first root only
analyzeWithContext_FirstRootOnly(spec, context) ==
  LET baseAnalysis == analyze(spec)
      roots == IF "roots" \in DOMAIN context /\ context.roots # <<>>
               THEN <<Head(context.roots)>> ELSE <<>>
      strict ==
        IF context.environment = "production"
        THEN [baseAnalysis EXCEPT !.capabilities =
                [requiresStrictValidation |-> TRUE] @@ @]
        ELSE baseAnalysis
  IN IF IsThrown(baseAnalysis) THEN baseAnalysis
     ELSE IF SomeTestRoot(roots) = "throw" THEN TypeError
     ELSE IF SomeTestRoot(roots) = "true"
          THEN [strict EXCEPT !.capabilities = [hasTestMode |-> TRUE] @@ @]
          ELSE strict

\* analyzeWithContext: the overlay written on the model analyze() returned
analyzeWithContext(spec, context) ==
  LET baseAnalysis == analyze(spec)
      roots == IF "roots" \in DOMAIN context THEN context.roots ELSE <<>>
      strict ==
        IF context.environment = "production"
        THEN [baseAnalysis EXCEPT !.capabilities =
                [requiresStrictValidation |-> TRUE] @@ @]
        ELSE baseAnalysis
  IN IF IsThrown(baseAnalysis) THEN baseAnalysis
     ELSE IF SomeTestRoot(roots) = "throw" THEN TypeError
     ELSE IF SomeTestRoot(roots) = "true"
          THEN [strict EXCEPT !.capabilities = [hasTestMode |-> TRUE] @@ @]
          ELSE strict

\* ------------------------------------------------------------------------
\* The documents given to the analyzer
\* ------------------------------------------------------------------------
\* all sequences over S of length at most n
RECURSIVE SeqsUpTo(_, _)
SeqsUpTo(S, n) ==
  IF n = 0 THEN {<<>>}
  ELSE LET shorter == SeqsUpTo(S, n - 1)
       IN shorter \cup {Append(q, x) : q \in shorter, x \in S}

\* summaries of an operation (Operation.summary)
Summaries ==
  { <<>>,
    <<"List", " ", "pets">>,
    <<"CREATE", " ", "pet">>,
    <<"Re", "create", " ", "index">>,
    <<"Update", " ", "pet">>,
    <<"Delete", " ", "pet">>,
    <<"Trigger", " ", "sync">>,
    <<"SEND", " ", "mail">>,
    <<"Execute", " ", "and", " ", "update">> }

\* keys of a path item that hold an operation (PathItem)
MethodKeys ==
  {"get", "Get", "GET", "post", "put", "delete", "patch",
   "head", "options", "trace"}

\* responses of an operation in Object.entries order: integer-like keys
\* ascending, then the other keys (Operation.responses)
ResponseTable ==
  << <<"200", [description |-> <<"OK">>]>>,
     <<"404", [description |-> <<"Not", " ", "found">>]>>,
     <<"429", [description |-> <<>>]>>,
     <<"500", [headers |-> ("X-Request-Id" :> [schema |-> "string"])]>>,
     <<"503", [description |-> <<"Retry", " ", "later">>]>>,
     <<"504", [description |-> <<"Gateway", " ", "timeout">>]>>,
     <<"default", [description |-> <<"Error">>]>> >>

\* the first n responses of the table
FirstResponses(n) == SubSeq(ResponseTable, 1, n)

\* parameters of an operation: Parameter objects and a Reference object
ParamKinds ==
  { [name |-> <<"id">>, in |-> "path"],
    [name |-> <<"LIMIT">>, in |-> "query"],
    [name |-> <<"page", "Size">>, in |-> "query"],
    [ref |-> <<"#/components/parameters/", "Cursor">>] }

\* n parameters that are not pagination parameters
Filler(n) == [i \in 1..n |-> [name |-> <<"filter", "_", "f">>, in |-> "query"]]

\* a schema of type object with n declared properties
ObjectSchema(n) ==
  [type |-> "object",
   properties |-> [i \in 1..n |-> << <<"field">>, [type |-> "string"] >>]]

\* request bodies of an operation (RequestBody | Reference)
RequestBodies ==
  { [ref |-> <<"#/components/requestBodies/", "PetBody">>],
    [description |-> <<"a", " ", "pet">>],
    [content |-> ("application/json" :> [example |-> "e"])],
    [content |-> ("application/json" :> [schema |-> [type |-> "object"]])],
    [content |-> ("multipart/form-data" :> [schema |-> [type |-> "object"]])],
    [content |-> ("application/json" :> [schema |-> ObjectSchema(MaxBodyProps)])
                 @@ ("multipart/form-data" :> [schema |-> [type |-> "object"]])] }
  \cup { [content |-> ("application/json" :> [schema |-> ObjectSchema(n)])] :
           n \in 0..MaxBodyProps }

\* op with the optional property name set to value when present
WithOpt(op, name, present, value) ==
  IF present THEN (name :> value) @@ op ELSE op

\* operations that differ in their summary
SummaryOperations ==
  { WithOpt([jstype |-> "object", responses |-> FirstResponses(1)],
            "summary", hasSummary, summary) :
      hasSummary \in BOOLEAN, summary \in Summaries }
  \cup { [jstype |-> "object", summary |-> <<"CREATE", " ", "pet">>],
         [jstype |-> "object", description |-> <<"Trigger", " ", "sync">>] }

\* operations that differ in the signals of calculateComplexity
ComplexityOperations ==
  { WithOpt(WithOpt(WithOpt([jstype |-> "object", description |-> <<"d">>],
                            "parameters", hasParams, Filler(params)),
                    "requestBody", hasBody, body),
            "responses", hasResponses, FirstResponses(responses)) :
      hasParams \in BOOLEAN, params \in 0..MaxParams,
      hasBody \in BOOLEAN, body \in RequestBodies,
      hasResponses \in BOOLEAN, responses \in 0..MaxResponses }

\* operations that differ in one signal of calculateComplexity around its
\* threshold
ThresholdOperations ==
  { WithOpt([jstype |-> "object",
             parameters |-> Filler(params),
             responses |-> FirstResponses(responses)],
            "requestBody", hasBody,
            [content |-> ("application/json" :> [schema |-> ObjectSchema(props)])]) :
      params \in {MaxParams - 1, MaxParams},
      responses \in {MaxResponses - 1, MaxResponses},
      hasBody \in BOOLEAN,
      props \in {MaxBodyProps - 1, MaxBodyProps} }

\* operations that differ in their parameters
ParameterOperations(n) ==
  { [jstype |-> "object", summary |-> <<"List", " ", "pets">>,
     parameters |-> params] : params \in SeqsUpTo(ParamKinds, n) \ {<<>>} }

\* entries of a path item that are not operations
OtherEntries ==
  { <<"parameters", [jstype |-> "array"]>>,
    <<"servers", [jstype |-> "array"]>>,
    <<"description", [jstype |-> "string"]>>,
    <<"x-internal", [jstype |-> "null"]>>,
    <<"get", [jstype |-> "object", operationId |-> "listPets"]>> }

PetsPath == <<"/", "pets">>
PetPath == <<"/", "pets", "/", "{id}">>

\* a document whose paths are the given entries
PathsDocument(paths) ==
  [jstype |-> "object", openapi |-> "3.0.0", paths |-> paths]

\* documents with one path and one entry under it
ScanDocuments ==
  { PathsDocument(<< <<PetsPath, << <<key, op>> >> >> >>) :
      key \in MethodKeys, op \in SummaryOperations }
  \cup { PathsDocument(<< <<PetsPath, << <<key, op>> >> >> >>) :
           key \in {"get", "post"}, op \in ComplexityOperations }
  \cup { PathsDocument(<< <<PetsPath, << <<"get", op>> >> >> >>) :
           op \in ParameterOperations(2) }
  \cup { PathsDocument(<< <<PetsPath, <<entry>> >> >>) : entry \in OtherEntries }

\* documents with two operations
PairDocuments ==
  { PathsDocument(<< <<PetsPath, << <<"get", op1>>, <<"head", op2>> >> >> >>) :
      op1 \in ThresholdOperations, op2 \in ThresholdOperations }
  \cup { PathsDocument(<< <<PetsPath, << <<"get", op1>> >> >>,
                          <<PetPath, << <<"get", op2>> >> >> >>) :
           op1 \in ParameterOperations(1), op2 \in ParameterOperations(1) }

\* reference pointers found in schemas (Reference.$ref)
Refs ==
  { <<SchemasPointer, "User">>,
    <<SchemasPointer, "Order">>,
    <<SchemasPointer, "Missing">>,
    <<SchemasPointer, "Order", "/", "properties", "/", "id">>,
    <<"common.yaml", SchemasPointer, "Order">>,
    <<"#/components/parameters/", "Limit">>,
    <<"#/definitions/", "Order">> }

\* schemas of a property
PropertySchemas ==
  { [ref |-> r] : r \in Refs }
  \cup { [type |-> "array", items |-> [ref |-> r]] : r \in Refs }
  \cup { [type |-> "string"],
         [type |-> "array", items |-> [type |-> "string"]],
         [type |-> "object", items |-> [ref |-> <<SchemasPointer, "Order">>]],
         [ref |-> <<SchemasPointer, "User">>, type |-> "array",
          items |-> [ref |-> <<SchemasPointer, "Order">>]] }

\* names of the properties of the schema User, by position
PropertyNames == << <<"owner", "Id">>, <<"item", "s">>, <<"address">> >>

\* the schemas named User
UserSchemas ==
  { [type |-> "object"] }
  \cup { [type |-> "object",
          properties |-> [i \in 1..Len(props) |-> <<PropertyNames[i], props[i]>>]] :
           props \in SeqsUpTo(PropertySchemas, 2) }

\* the schema named Order
OrderSchema ==
  [type |-> "object",
   properties |-> << << <<"buyer">>, [ref |-> <<SchemasPointer, "User">>] >>,
                     << <<"id">>, [type |-> "string"] >> >>]

\* documents with schemas
SchemaDocuments ==
  { [jstype |-> "object", openapi |-> "3.0.0", paths |-> <<>>,
     components |-> [schemas |-> << << <<"User">>, user >> >> \o others]] :
      user \in UserSchemas,
      others \in { <<>>, << << <<"Order">>, OrderSchema >> >> } }

\* documents that differ in their top-level sections
TopLevelDocuments ==
  { [jstype |-> "null"],
    [jstype |-> "undefined"],
    [jstype |-> "number"],
    [jstype |-> "string"],
    [jstype |-> "boolean"],
    [jstype |-> "object", openapi |-> "3.0.0"],
    [jstype |-> "object", openapi |-> "3.0.0", paths |-> <<>>],
    [jstype |-> "object", openapi |-> "3.0.0",
     paths |-> << <<PetsPath, <<>> >> >>],
    [jstype |-> "object", openapi |-> "3.0.0",
     components |-> [responses |-> <<>>]],
    [jstype |-> "object", openapi |-> "3.0.0",
     components |-> [securitySchemes |-> <<>>]],
    [jstype |-> "object", openapi |-> "3.0.0", paths |-> <<>>,
     components |-> [schemas |-> <<>>,
                     securitySchemes |-> << <<"apiKey", [type |-> "apiKey"]>> >>]],
    [jstype |-> "object", openapi |-> "3.0.0", webhooks |-> <<>>] }

\* an operation with one response and nothing else
PlainOperation == [jstype |-> "object", responses |-> FirstResponses(1)]

\* the path item that holds a plain operation under each of the keys, in
\* the order given
PlainPathItem(keys) == [i \in 1..Len(keys) |-> <<keys[i], PlainOperation>>]

\* the order-preserving subsequences of q
RECURSIVE SubSequences(_)
SubSequences(q) ==
  IF q = <<>> THEN {<<>>}
  ELSE LET rest == SubSequences(Tail(q))
       IN rest \cup {<<Head(q)>> \o r : r \in rest}

\* first path segments of the documents with workflows; the text
\* authentication contains auth
Segments ==
  { <<"widgets">>, <<"auth", "entication">>, <<"pagination">>, <<"fileUpload">> }

\* a request body with one media type
BodyOf(mediaType) == [content |-> (mediaType :> [schema |-> [type |-> "object"]])]

\* further paths of the documents with workflows: none or one path
ExtraPaths ==
  { <<>>,
    << << <<"/", "gadgets">>, PlainPathItem(<<"get", "post", "put", "delete">>) >> >>,
    << << <<"/", "login">>, PlainPathItem(<<"post">>) >> >>,
    << << <<"/", "token">>, PlainPathItem(<<"post">>) >> >>,
    << << <<"/", "files">>,
          << <<"post", [jstype |-> "object", summary |-> <<"upload">>,
                        requestBody |-> BodyOf("multipart/form-data")]>> >> >> >>,
    << << <<"/", "files">>,
          << <<"post", [jstype |-> "object", summary |-> <<"upload">>,
                        requestBody |-> BodyOf("multipart/mixed")]>> >> >> >>,
    << << <<"/", "search">>,
          << <<"get", [jstype |-> "object", summary |-> <<"List", " ", "pets">>,
                       parameters |-> << [name |-> <<"Cursor">>, in |-> "query"] >>]>>
          >> >> >> }

\* documents with a collection path and an item path under one first
\* segment, each with some of the methods, and at most one further path
WorkflowDocuments ==
  { PathsDocument(<< << <<"/">> \o segment, PlainPathItem(collection) >>,
                     << <<"/">> \o segment \o <<"/", "{id}">>, PlainPathItem(item) >> >>
                  \o extra) :
      segment \in Segments,
      collection \in SubSequences(<<"get", "post">>),
      item \in SubSequences(<<"get", "put", "delete">>),
      extra \in ExtraPaths }

\* responses in Object.entries order, with and without a description
ErrorResponseTable ==
  << <<"200", [description |-> <<"OK">>]>>,
     <<"202", [description |-> <<"Accepted">>]>>,
     <<"400", [description |-> <<"Fix", " ", "and", " ", "Retry">>]>>,
     <<"404", [description |-> <<"Not", " ", "found">>]>>,
     <<"429", [description |-> <<>>]>>,
     <<"500", [headers |-> ("RateLimit-Limit" :> [schema |-> "integer"])]>>,
     <<"503", [description |-> <<"Unavailable">>]>>,
     <<"default", [description |-> <<"Retry", " ", "later">>]>> >>

\* documents with one operation that declares some of the responses
ErrorDocuments ==
  { PathsDocument(<< <<PetsPath,
                       << <<"get", [jstype |-> "object", responses |-> responses]>> >> >> >>) :
      responses \in SubSequences(ErrorResponseTable) }

\* properties of the schema Account: name and schema; a property name is
\* any string, the empty string too
AccountProperties ==
  { << <<"owner">>, [ref |-> <<SchemasPointer, "User">>] >>,
    << <<"owner", "Id">>, [ref |-> <<SchemasPointer, "User">>] >>,
    << <<"profile", "s">>,
       [type |-> "array", items |-> [ref |-> <<SchemasPointer, "User", "Profile">>]] >>,
    << <<"buyer", "_id">>, [ref |-> <<SchemasPointer, "Order">>] >>,
    << <<"order", "List">>,
       [type |-> "array", items |-> [ref |-> <<SchemasPointer, "Order">>]] >>,
    << <<"meta">>, [type |-> "object", items |-> [ref |-> <<SchemasPointer, "Order">>]] >>,
    << <<>>, [ref |-> <<SchemasPointer, "Order">>] >> }

\* the property lists of the schema Account: up to 3 properties of
\* different names
AccountPropertyLists ==
  { props \in SeqsUpTo(AccountProperties, 3) :
      \A i, j \in 1..Len(props) : i # j => props[i][1] # props[j][1] }

\* documents with the schemas Account, User, UserProfile and Order
RelationDocuments ==
  { [jstype |-> "object", openapi |-> "3.0.0", paths |-> <<>>,
     components |->
       [schemas |->
          << << <<"Account">>, [type |-> "object", properties |-> props] >>,
             << <<"User">>,
                [type |-> "object",
                 properties |->
                   << << <<"profile">>,
                         [ref |-> <<SchemasPointer, "User", "Profile">>] >> >>] >>,
             << <<"User", "Profile">>,
                [type |-> "object",
                 properties |->
                   << << <<"user">>, [ref |-> <<SchemasPointer, "User">>] >> >>] >>,
             << <<"Order">>, [type |-> "object"] >> >>]] :
      props \in AccountPropertyLists }

\* the path item that holds, under each of the keys, an operation with the
\* first n responses of the table
ResponsePathItem(keys, n) ==
  [i \in 1..Len(keys) |->
     <<keys[i], [jstype |-> "object", responses |-> FirstResponses(n)]>>]

\* documents with paths, responses and schemas together: the five
\* operations of /authentication with up to 3 responses each, at most one
\* further path, and the schemas of a document of RelationDocuments
FeatureDocuments ==
  { [jstype |-> "object", openapi |-> "3.0.0",
     paths |->
       << << <<"/", "auth", "entication">>,
             ResponsePathItem(<<"get", "post">>, collection) >>,
          << <<"/", "auth", "entication", "/", "{id}">>,
             ResponsePathItem(<<"get", "put", "delete">>, item) >> >> \o extra,
     components |-> related.components] :
      collection \in 1..3, item \in 1..3,
      extra \in {e \in ExtraPaths : e = <<>> \/ e[1][1] = <<"/", "search">>},
      related \in {d \in RelationDocuments :
                     Len(d.components.schemas[1][2].properties) <= 2} }

Documents ==
  TopLevelDocuments \cup ScanDocuments \cup PairDocuments \cup SchemaDocuments
    \cup WorkflowDocuments \cup ErrorDocuments \cup RelationDocuments
    \cup FeatureDocuments

\* contexts given to analyzeWithContext (APIContext)
Contexts ==
  { [environment |-> "unknown"],
    [environment |-> "development",
     roots |-> << [uri |-> "file:///srv/api", name |-> <<"api">>],
                  [uri |-> "file:///srv/t", name |-> <<"my", "-", "test">>] >>] }

\* more contexts: production without roots, one with roots and neither
\* condition of the overlay, one with both conditions
OverlayContexts ==
  Contexts \cup
  { [environment |-> "production", roots |-> <<>>],
    [environment |-> "staging",
     roots |-> << [uri |-> "file:///srv/api", name |-> <<"api">>] >>],
    [environment |-> "production",
     roots |-> << [uri |-> "file:///srv/t", name |-> <<"test", "s">>] >>] }

\* ------------------------------------------------------------------------
\* ContextManager
\* ------------------------------------------------------------------------
\* a URI is its scheme, the tokens of its host, and the tokens of its path,
\* which start with "/"; the tokens .dev., -dev, .staging., -staging, .prod.
\* and -prod stand wherever a host has that text

\* String.prototype.includes(word) on one token of a host
TokenHas(tok, word) ==
  CASE word = "dev" -> tok \in {"dev", ".dev.", "-dev"}
    [] word = "staging" -> tok \in {"staging", ".staging.", "-staging"}
    [] OTHER -> tok = word

\* url.hostname.includes(word)
HostIncludes(hostname, word) == \E i \in 1..Len(hostname) : TokenHas(hostname[i], word)

\* the index of the first "/" after the scheme, 0 when the URI has no path
PathStart(uri) ==
  LET slashes == {i \in 2..Len(uri) : uri[i] = "/"}
  IN IF slashes = {} THEN 0 ELSE CHOOSE i \in slashes : \A j \in slashes : i <= j

\* new URL(root.uri).hostname
Hostname(uri) ==
  IF PathStart(uri) = 0 THEN Tail(uri) ELSE SubSeq(uri, 2, PathStart(uri) - 1)

\* new URL(root.uri).pathname
Pathname(uri) ==
  IF PathStart(uri) = 0 THEN <<"/">> ELSE SubSeq(uri, PathStart(uri), Len(uri))

\* url.pathname.match(/\/tenants?\/([^\/]+)/): the capture of the first
\* match, Null without a match
TenantMatch(pathname) ==
  LET at == {i \in 1..(Len(pathname) - 3) :
               /\ pathname[i] = "/"
               /\ pathname[i + 1] \in {"tenant", "tenants"}
               /\ pathname[i + 2] = "/"
               /\ pathname[i + 3] # "/"}
  IN IF at = {} THEN Null
     ELSE <<pathname[(CHOOSE i \in at : \A j \in at : i <= j) + 3]>>

\* Map.prototype.set and Set.prototype.add
MapSet(map, key, value) == (key :> value) @@ map

\* Map.prototype.get, undefined without the key
MapGet(map, key) == IF key \in DOMAIN map THEN map[key] ELSE "undefined"

\* the environment processAPIRoot detects from the host, "undefined" when
\* no branch is taken
HostEnvironment(hostname) ==
  IF HostIncludes(hostname, ".dev.") \/ HostIncludes(hostname, "-dev")
  THEN "development"
  ELSE IF HostIncludes(hostname, ".staging.") \/ HostIncludes(hostname, "-staging")
  THEN "staging"
  ELSE IF \/ HostIncludes(hostname, ".prod.") \/ HostIncludes(hostname, "-prod")
          \/ (~HostIncludes(hostname, "dev") /\ ~HostIncludes(hostname, "staging"))
  THEN "production"
  ELSE "undefined"

\* processAPIRoot
processAPIRoot(context, root) ==
  LET hostname == Hostname(root.uri)
      envKey == root.uri \o <<"_env">>
      metadata == IF HostEnvironment(hostname) = "undefined"
                  THEN context.metadata
                  ELSE MapSet(context.metadata, envKey, HostEnvironment(hostname))
      tenantMatch == TenantMatch(Pathname(root.uri))
      withTenant == IF tenantMatch = Null THEN context
                    ELSE [tenant |-> tenantMatch] @@ [x \in DOMAIN context \ {"tenant"} |-> context[x]]
      versioned == Includes(root.uri, <<"/", "v2">>) \/ Includes(root.uri, <<"/", "v3">>)
  IN [withTenant EXCEPT
        !.metadata = metadata,
        !.apiClients = MapSet(@, <<"client_">> \o root.uri,
                              [baseURL |-> root.uri,
                               environment |-> MapGet(metadata, envKey)]),
        !.capabilities = @ \cup {"api_access"}
                           \cup (IF versioned THEN {"versioned_api"} ELSE {})]

\* processFileRoot
processFileRoot(context, root) ==
  LET path == Tail(root.uri)
      isConfig == \E ext \in {".json", ".yaml", ".yml"} : EndsWith(path, <<ext>>)
      isSpec == Includes(path, <<"openapi">>) \/ Includes(path, <<"swagger">>)
      isTest == Includes(path, <<"test">>) \/ Includes(path, <<"mock">>)
      config == IF isConfig
                THEN [context EXCEPT !.capabilities = @ \cup {"local_config"},
                                     !.configuration = MapSet(@, <<"configPath">>, path)]
                ELSE context
      specFile == IF isSpec
                  THEN [config EXCEPT !.capabilities = @ \cup {"local_spec"},
                                      !.metadata = MapSet(@, <<"specPath">>, path)]
                  ELSE config
  IN IF isTest
     THEN [specFile EXCEPT !.capabilities = @ \cup {"test_data"},
                           !.metadata = MapSet(@, <<"testDataPath">>, path)]
     ELSE specFile

\* processCustomRoot with the handlers of registerRootHandlers
processCustomRoot(context, root) ==
  CASE Head(root.uri) = "discovery://" ->
         [context EXCEPT !.capabilities = @ \cup {"api_discovery"},
                         !.metadata = MapSet(@, <<"discoveryEndpoint">>, root.uri)]
    [] Head(root.uri) = "graphql://" ->
         [context EXCEPT !.capabilities = @ \cup {"graphql_api"},
                         !.metadata = MapSet(@, <<"graphqlEndpoint">>,
                                             <<"https://">> \o Tail(root.uri))]
    [] Head(root.uri) = "ws://" ->
         [context EXCEPT !.capabilities = @ \cup {"websocket_api"},
                         !.metadata = MapSet(@, <<"websocketEndpoint">>, root.uri)]
    [] OTHER -> [context EXCEPT !.capabilities = @ \cup {"custom_protocol"}]

\* processRoot
processRoot(context, root) ==
  IF Head(root.uri) \in {"https://", "http://"} THEN processAPIRoot(context, root)
  ELSE IF Head(root.uri) = "file://" THEN processFileRoot(context, root)
  ELSE processCustomRoot(context, root)

\* the values of the metadata entries whose key ends with _env
DetectedEnvironments(context) ==
  {context.metadata[key] :
     key \in {k \in DOMAIN context.metadata : EndsWith(k, <<"_env">>)}}

\* detectEnvironment
detectEnvironment(context) ==
  LET environments == DetectedEnvironments(context)
  IN [context EXCEPT !.environment =
        IF "production" \in environments THEN "production"
        ELSE IF "staging" \in environments THEN "staging"
        ELSE IF "development" \in environments THEN "development"
        ELSE IF \E i \in 1..Len(context.roots) : Head(context.roots[i].uri) = "file://"
        THEN "local"
        ELSE "unknown"]

\* updateCapabilities
updateCapabilities(context) ==
  LET envCount == Cardinality(DetectedEnvironments(context))
      hasLocal == \E i \in 1..Len(context.roots) : Head(context.roots[i].uri) = "file://"
      hasRemote == \E i \in 1..Len(context.roots) :
                     Head(context.roots[i].uri) \in {"http://", "https://"}
      multi == context.capabilities
                 \cup (IF envCount > 1 THEN {"multi_environment"} ELSE {})
      hybrid == multi \cup (IF hasLocal /\ hasRemote THEN {"hybrid_mode"} ELSE {})
      testing == hybrid \cup (IF "test_data" \in hybrid \/ context.environment = "development"
                              THEN {"testing_enabled"} ELSE {})
      advanced == testing \cup (IF Cardinality(testing) > 5 THEN {"advanced_mode"} ELSE {})
  IN [context EXCEPT !.capabilities = advanced]

\* the loop of updateRoots over the roots from position i on
RECURSIVE ProcessRoots(_, _)
ProcessRoots(context, roots) ==
  IF roots = <<>> THEN context
  ELSE ProcessRoots(processRoot(context, Head(roots)), Tail(roots))

\* updateRoots, run without another call in between
updateRoots(context, roots) ==
  updateCapabilities(
    detectEnvironment(
      ProcessRoots([context EXCEPT !.roots = roots], roots)))

\* createDefaultContext
createDefaultContext ==
  [environment |-> "unknown",
   roots |-> <<>>,
   capabilities |-> {"basic"},
   configuration |-> <<>>,
   apiClients |-> <<>>,
   metadata |-> <<>>,
   operationHistory |-> <<>>,
   sessionId |-> "session_1"]

\* context.operationHistory.slice(-n)
SliceLast(s, n) == IF Len(s) <= n THEN s ELSE SubSeq(s, Len(s) - n + 1, Len(s))

\* the size operationHistory may not exceed, and the size it is cut to
HistoryLimit == 100
HistoryKeep == 50

\* trackOperation cutting the history before the new operation is pushed
trackOperation_CutBeforePush(context, operation) ==
  LET cut == IF Len(context.operationHistory) > HistoryLimit
             THEN SliceLast(context.operationHistory, HistoryKeep)
             ELSE context.operationHistory
  IN [context EXCEPT !.operationHistory = Append(cut, operation)]

\* trackOperation
trackOperation(context, operation) ==
  LET pushed == Append(context.operationHistory, operation)
  IN [context EXCEPT !.operationHistory =
        IF Len(pushed) > HistoryLimit THEN SliceLast(pushed, HistoryKeep) ELSE pushed]

\* roots a client may announce (Root)
Roots ==
  { [uri |-> <<"https://", "api", ".", "example", ".com">>, name |-> <<"api">>],
    [uri |-> <<"https://", "api", ".dev.", "example", ".com", "/", "v2">>,
     name |-> <<"dev">>],
    [uri |-> <<"https://", "api", "-staging", ".", "example", ".com",
               "/", "tenants", "/", "acme">>,
     name |-> <<"staging">>],
    [uri |-> <<"https://", "dev", "portal", ".", "example", ".com">>,
     name |-> <<"portal">>],
    [uri |-> <<"file://", "/", "srv", "/", "openapi", ".yaml">>, name |-> <<"spec">>],
    [uri |-> <<"file://", "/", "srv", "/", "test", "-data">>,
     name |-> <<"test", "-data">>],
    [uri |-> <<"graphql://", "api", ".", "example", ".com", "/", "graphql">>,
     name |-> <<"graph">>] }

\* the root lists of a call of updateRoots: at most MaxRoots roots
RootLists == SeqsUpTo(Roots, MaxRoots)

\* ------------------------------------------------------------------------
\* IntelligenceEngine
\* ------------------------------------------------------------------------
\* JSON.parse of a text that is not JSON
SyntaxError == [threw |-> "SyntaxError"]

\* a configuration that sets none of the optional sections
DefaultConfig == [serverName |-> <<"api">>]

\* config.adaptive?.rootBasedCapabilities
RootBasedCapabilities(cfg) ==
  IF "adaptive" \in DOMAIN cfg /\ "rootBasedCapabilities" \in DOMAIN cfg.adaptive
  THEN cfg.adaptive.rootBasedCapabilities
  ELSE JsUndefined

\* config.intelligence?.sampling?.model || 'claude-3-opus'
SamplingModel(cfg) ==
  IF /\ "intelligence" \in DOMAIN cfg
     /\ "sampling" \in DOMAIN cfg.intelligence
     /\ "model" \in DOMAIN cfg.intelligence.sampling
     /\ cfg.intelligence.sampling.model # <<>>
  THEN cfg.intelligence.sampling.model
  ELSE <<"claude-3-opus">>

\* configurations (TransformerConfig); a flag is absent, true or false
Configs ==
  { DefaultConfig,
    [serverName |-> <<"api">>, adaptive |-> [rootBasedCapabilities |-> JsTrue]],
    [serverName |-> <<"api">>, adaptive |-> [rootBasedCapabilities |-> JsFalse]],
    [serverName |-> <<"api">>, adaptive |-> [contextAwareTools |-> JsFalse]],
    [serverName |-> <<"api">>,
     intelligence |-> [sampling |-> [model |-> <<"claude-3-haiku">>]]] }

\* removePII: a message is written [role, text], text being content.text;
\* the e-mail pattern matches the text ops@example.com
removePII(messages) ==
  [i \in 1..Len(messages) |->
     [messages[i] EXCEPT !.text =
        [j \in 1..Len(@) |-> IF @[j] = "ops@example.com" THEN "[EMAIL]" ELSE @[j]]]]

\* removeHealthInfo
removeHealthInfo(messages) == messages

\* context.compliance, empty when the context has none
Compliance(context) ==
  IF "compliance" \in DOMAIN context THEN context.compliance ELSE {}

\* sanitizeRequest, given request.params
sanitizeRequest(params, context) ==
  LET gdpr == IF "GDPR" \in Compliance(context)
              THEN [params EXCEPT !.messages = removePII(@)]
              ELSE params
  IN IF "HIPAA" \in Compliance(context)
     THEN [gdpr EXCEPT !.messages = removeHealthInfo(@)]
     ELSE gdpr

\* addContextToMessages; the text of the context message names the
\* environment and the roots
addContextToMessages(messages, context) ==
  <<[role |-> "system",
     text |-> <<"Context:", "Environment:", context.environment, "Roots:">>
              \o Flatten([i \in 1..Len(context.roots) |-> context.roots[i].name])]>>
  \o messages

\* getDefaultModelPreferences, priorities in tenths
getDefaultModelPreferences(cfg) ==
  [hints |-> <<SamplingModel(cfg)>>,
   intelligencePriority |-> 8,
   speedPriority |-> 5,
   costPriority |-> 3]

\* the request handleSamplingRequest tracks and answers: sanitized, with
\* the context message unless includeContext is 'none', and with model
\* preferences
PrepareRequest(params, context, cfg) ==
  LET sanitized == sanitizeRequest(params, context)
      includeContext == IF "includeContext" \in DOMAIN params
                        THEN params.includeContext ELSE JsUndefined
      withContext == IF includeContext # "none"
                     THEN [sanitized EXCEPT
                             !.messages = addContextToMessages(@, context)]
                     ELSE sanitized
  IN IF "modelPreferences" \in DOMAIN withContext
     THEN withContext
     ELSE ("modelPreferences" :> getDefaultModelPreferences(cfg)) @@ withContext

\* context.sessionId || 'default'
SessionKey(context) ==
  IF context.sessionId = "" THEN "default" ELSE context.sessionId

\* extractContextSummary
extractContextSummary(context) ==
  [environment |-> context.environment,
   rootCount |-> Len(context.roots),
   operationCount |-> Len(context.operationHistory)]

\* trackSamplingRequest; the entry is written without its timestamp
trackSamplingRequest(history, request, context) ==
  LET sessionId == SessionKey(context)
      entries == IF sessionId \in DOMAIN history THEN history[sessionId] ELSE <<>>
  IN MapSet(history, sessionId,
            Append(entries, [request |-> request,
                             context |-> extractContextSummary(context)]))

\* trackSamplingResult
trackSamplingResult(history, samplingResult, context) ==
  LET sessionId == SessionKey(context)
  IN IF sessionId \in DOMAIN history /\ Len(history[sessionId]) > 0
     THEN [history EXCEPT ![sessionId][Len(history[sessionId])] =
             ("result" :> samplingResult) @@ @]
     ELSE history

\* JSON.stringify of an object whose property values are strings; a nested
\* value is written as one token
Stringify(obj) ==
  <<"{">> \o Flatten([i \in 1..Len(obj) |-> <<obj[i][1], obj[i][2]>>]) \o <<"}">>

\* JSON.parse: the object of a text produced by Stringify, a SyntaxError
\* for any other text
JSONparse(text) ==
  IF /\ Len(text) >= 2
     /\ Head(text) = "{"
     /\ text[Len(text)] = "}"
     /\ (Len(text) - 2) % 2 = 0
  THEN [parsed |-> [i \in 1..((Len(text) - 2) \div 2) |->
                      <<text[2 * i], text[2 * i + 1]>>]]
  ELSE SyntaxError

\* obj[key], undefined when the object has no such property
Property(obj, key) ==
  IF \E i \in 1..Len(obj) : obj[i][1] = key
  THEN obj[CHOOSE i \in 1..Len(obj) : obj[i][1] = key][2]
  ELSE JsUndefined

\* generateIntelligentResponse
generateIntelligentResponse(request) ==
  LET lastMessage == request.messages[Len(request.messages)]
      messageText == lastMessage.text
  IN IF Includes(messageText, <<"Analyze this API response">>)
     THEN Stringify(<< <<"analysis",
                         "The API response indicates successful data retrieval">>,
                       <<"suggestedActions", "[fetch_next_page, cache_results]">>,
                       <<"insights", "[...]">> >>)
     ELSE IF Includes(messageText, <<"Convert this natural language request">>)
     THEN Stringify(<< <<"endpoint", "/users">>, <<"method", "GET">>,
                       <<"parameters", "{limit, sort, order}">>,
                       <<"headers", "{Accept}">> >>)
     ELSE IF Includes(messageText, <<"recovery strategy">>)
     THEN Stringify(<< <<"strategy", "retry">>, <<"modifications", "{headers}">>,
                       <<"waitTime", "2000">>,
                       <<"reason",
                         "Rate limit error suggests temporary unavailability">> >>)
     ELSE <<"Intelligent response based on context and request">>

\* the SamplingResult handleSamplingRequest builds for a prepared request
SamplingResultOf(request, cfg) ==
  [model |-> SamplingModel(cfg),
   role |-> "assistant",
   text |-> generateIntelligentResponse(request)]

\* executeWorkflowAction; JSON.stringify leaves out an undefined
\* actionExecuted, and the timestamp is written "now"
executeWorkflowAction(action) ==
  << <<"success", JsTrue>>,
     <<"data", IF action = JsUndefined THEN "{}" ELSE action>>,
     <<"timestamp", "now">> >>

\* { ...a, ...b }
Spread(a, b) ==
  LET kept == [i \in 1..Len(a) |->
                 IF \E j \in 1..Len(b) : b[j][1] = a[i][1]
                 THEN <<a[i][1], Property(b, a[i][1])>>
                 ELSE a[i]]
      added == SelectSeq(b, LAMBDA p : \A i \in 1..Len(a) : a[i][1] # p[1])
  IN kept \o added

\* maxSteps of orchestrateWorkflow
maxSteps == 20

\* the condition of the loop of orchestrateWorkflow, were the bound
\* inclusive
LoopContinues_StepInclusive(workflowState) ==
  ~Truthy(workflowState.completed) /\ workflowState.step <= maxSteps

\* the condition of the loop of orchestrateWorkflow
LoopContinues(workflowState) ==
  ~Truthy(workflowState.completed) /\ workflowState.step < maxSteps

\* JSON.stringify of an entry of workflowState.history: undefined
\* properties are left out
StringifyEntry(entry) ==
  Stringify(<< <<"step", ToString(entry.step)>> >>
            \o (IF entry.action = JsUndefined THEN <<>>
                ELSE << <<"action", entry.action>> >>)
            \o (IF entry.reasoning = JsUndefined THEN <<>>
                ELSE << <<"reasoning", entry.reasoning>> >>)
            \o << <<"result", "{success, data, timestamp}">> >>)

\* the text of the message orchestrateWorkflow sends for the next step
WorkflowText(workflowName, workflowState, availableTools) ==
  <<"Orchestrate the next step of the">> \o workflowName
  \o <<"workflow:", "Current Step:", ToString(workflowState.step), "Current Data:">>
  \o Stringify(workflowState.data)
  \o <<"History:">>
  \o Flatten([i \in 1..Len(SliceLast(workflowState.history, 3)) |->
                StringifyEntry(SliceLast(workflowState.history, 3)[i])])
  \o <<"Available Tools:">>
  \o Flatten([i \in 1..Len(availableTools) |->
                availableTools[i].name \o <<":">> \o availableTools[i].description])
  \o <<"Determine the next action. Respond with JSON:">>

\* the params of the sampling request of orchestrateWorkflow
WorkflowRequest(workflowName, workflowState, availableTools) ==
  [messages |-> <<[role |-> "user",
                   text |-> WorkflowText(workflowName, workflowState, availableTools)]>>,
   modelPreferences |-> [hints |-> << <<"claude-3-opus">> >>,
                         intelligencePriority |-> 9],
   systemPrompt |-> <<"You are orchestrating a">> \o workflowName \o <<"workflow.">>,
   maxTokens |-> 600,
   temperature |-> 4]

\* result.content.text || '{}'
TextOrEmptyObject(text) == IF text = <<>> THEN <<"{", "}">> ELSE text

\* the workflow state after a step with the given decision
AdvanceWorkflow(workflowState, decision) ==
  LET actionResult == executeWorkflowAction(Property(decision, "action"))
  IN [step |-> workflowState.step + 1,
      data |-> Spread(workflowState.data, actionResult),
      completed |-> Property(decision, "isComplete"),
      history |-> Append(workflowState.history,
                         [step |-> workflowState.step,
                          action |-> Property(decision, "action"),
                          reasoning |-> Property(decision, "reasoning"),
                          result |-> actionResult])]

\* names, parameters and tools orchestrateWorkflow is called with
WorkflowNames == { <<"checkout">>, <<"Analyze this API response">> }

InitialParams ==
  { <<>>,
    << <<"data", "Convert this natural language request">> >>,
    << <<"note", "recovery strategy">> >>,
    << <<"contact", "ops@example.com">> >> }

ToolLists ==
  { <<>>,
    <<[name |-> <<"retry">>, description |-> <<"recovery strategy">>]>> }

\* contexts the engine is called with
EngineContexts ==
  { createDefaultContext,
    [createDefaultContext EXCEPT !.sessionId = ""],
    ("compliance" :> {"GDPR", "HIPAA"}) @@ createDefaultContext }

\* the params of the sampling requests a client sends
SamplingRequests ==
  { [messages |-> <<[role |-> "user", text |-> <<"List the users">>]>>],
    [messages |-> <<[role |-> "user", text |-> <<"Analyze this API response", ":", "200">>]>>,
     includeContext |-> "none"],
    [messages |-> <<[role |-> "user", text |-> <<"Convert this natural language request", ":", "all users">>]>>,
     includeContext |-> "thisServer"],
    [messages |-> <<[role |-> "user",
                     text |-> <<"What is the", "recovery strategy", "?">>]>>,
     modelPreferences |-> [hints |-> << <<"claude-3-haiku">> >>]] }

\* the calls of handleSamplingRequest and the runs of the notification
\* handler
Calls == 1..MaxSampling
Handlers == 1..MaxHandlers

\* ------------------------------------------------------------------------
\* The analyzer as a state machine
\* ------------------------------------------------------------------------
\* spec: SpecAnalyzer.spec, the document given to the constructor
\* models: the SpecAnalysis objects returned so far, in allocation order
\* result: the outcome of the latest call
\* activeContext: the active context of the ContextManager
\* updates: the number of calls made on the ContextManager so far
\* config: the TransformerConfig shared by the components
\* samplingHistory: IntelligenceEngine.samplingHistory
\* sampling: the calls of handleSamplingRequest, each with its position
\* orchestration: the call of orchestrateWorkflow, with its workflowState
\* handlers: the runs of the roots/listChanged handler, each with its position
\* analyses: the contexts analyzeWithContext was called with by the handlers
VARIABLES spec, models, result, activeContext, updates, config,
          samplingHistory, sampling, orchestration, handlers, analyses

analyzerVars == <<spec, models, result>>

managerVars == <<activeContext, updates>>

engineVars == <<samplingHistory, sampling, orchestration>>

transformerVars == <<config, handlers, analyses>>

vars == <<analyzerVars, managerVars, engineVars, transformerVars>>

\* a SpecAnalyzer that has not been called
AnalyzerInit(documents) ==
  /\ spec \in documents
  /\ models = <<>>
  /\ result = [call |-> "none"]

\* a ContextManager after its constructor
ManagerInit ==
  /\ activeContext = createDefaultContext
  /\ updates = 0

\* an IntelligenceEngine after its constructor, with no call made
EngineInit ==
  /\ samplingHistory = <<>>
  /\ sampling = [c \in Calls |-> [pc |-> "idle"]]
  /\ orchestration = [pc |-> "idle"]

\* an OpenAPIMCPTransformer with one of the given configurations and no
\* notification received
TransformerInit(configs) ==
  /\ config \in configs
  /\ handlers = [h \in Handlers |-> [pc |-> "idle"]]
  /\ analyses = <<>>

Init ==
  /\ AnalyzerInit(Documents)
  /\ ManagerInit
  /\ EngineInit
  /\ TransformerInit({DefaultConfig})

\* the outcome r of a call with the argument context, were analyze() to
\* keep the first model it built and hand it out again
Outcome_ModelKeptAndReused(call, context, r) ==
  IF IsThrown(r)
  THEN /\ result' = [call |-> call, context |-> context, threw |-> r.threw]
       /\ UNCHANGED models
  ELSE IF models = <<>>
       THEN /\ models' = <<r>>
            /\ result' = [call |-> call, context |-> context, returned |-> 1]
       ELSE /\ models' = [models EXCEPT ![1] = r]
            /\ result' = [call |-> call, context |-> context, returned |-> 1]

\* the outcome r of a call with the argument context: the object literal
\* of analyze() is a new object, and the overlay of analyzeWithContext is
\* written on that object
Outcome(call, context, r) ==
  IF IsThrown(r)
  THEN /\ result' = [call |-> call, context |-> context, threw |-> r.threw]
       /\ UNCHANGED models
  ELSE /\ models' = Append(models, r)
       /\ result' = [call |-> call, context |-> context,
                     returned |-> Len(models) + 1]

\* a call of analyze()
Analyze ==
  /\ Len(models) < MaxCalls
  /\ Outcome("analyze", Undefined, analyze(spec))
  /\ UNCHANGED <<spec, managerVars, engineVars, transformerVars>>

\* a call of analyzeWithContext(context)
AnalyzeWithContext ==
  /\ Len(models) < MaxCalls
  /\ \E context \in Contexts :
       Outcome("analyzeWithContext", context, analyzeWithContext(spec, context))
  /\ UNCHANGED <<spec, managerVars, engineVars, transformerVars>>

Next == Analyze \/ AnalyzeWithContext

Spec == Init /\ [][Next]_vars

\* a call of analyzeWithContext(context) with any of the contexts of the
\* overlay
AnalyzeWithOverlay ==
  /\ Len(models) < MaxCalls
  /\ \E context \in OverlayContexts :
       Outcome("analyzeWithContext", context, analyzeWithContext(spec, context))
  /\ UNCHANGED <<spec, managerVars, engineVars, transformerVars>>

InitOverlay ==
  /\ AnalyzerInit(TopLevelDocuments \cup PairDocuments)
  /\ ManagerInit
  /\ EngineInit
  /\ TransformerInit({DefaultConfig})

NextOverlay == Analyze \/ AnalyzeWithOverlay

\* an analyzer called with and without contexts
SpecOverlay == InitOverlay /\ [][NextOverlay]_vars

\* ------------------------------------------------------------------------
\* The context manager as a state machine
\* ------------------------------------------------------------------------
\* a call of updateRoots(roots) that runs to its end before the next call
UpdateRoots ==
  /\ updates < MaxUpdates
  /\ \E roots \in RootLists : activeContext' = updateRoots(activeContext, roots)
  /\ updates' = updates + 1
  /\ UNCHANGED <<analyzerVars, engineVars, transformerVars>>

\* the components after construction, the transformer with the default
\* configuration
InitRoots ==
  /\ AnalyzerInit({Undefined})
  /\ ManagerInit
  /\ EngineInit
  /\ TransformerInit({DefaultConfig})

NextRoots == UpdateRoots

\* a context manager whose roots are updated call after call
SpecRoots == InitRoots /\ [][NextRoots]_vars

\* a call of trackOperation(operation); the operation of the n-th call is
\* written n
TrackOperation ==
  /\ updates < MaxTracked
  /\ activeContext' = trackOperation(activeContext, updates + 1)
  /\ updates' = updates + 1
  /\ UNCHANGED <<analyzerVars, engineVars, transformerVars>>

NextHistory == TrackOperation

\* a context manager whose operations are tracked call after call
SpecHistory == InitRoots /\ [][NextHistory]_vars

\* ------------------------------------------------------------------------
\* orchestrateWorkflow as a state machine
\* ------------------------------------------------------------------------
\* a call of orchestrateWorkflow(workflowName, initialParams,
\* availableTools, context) up to the test of its loop
StartWorkflow ==
  /\ orchestration.pc = "idle"
  /\ \E workflowName \in WorkflowNames, initialParams \in InitialParams,
        availableTools \in ToolLists, context \in EngineContexts :
       orchestration' = [pc |-> "loop",
                         workflowName |-> workflowName,
                         availableTools |-> availableTools,
                         context |-> context,
                         workflowState |-> [step |-> 0,
                                            data |-> initialParams,
                                            completed |-> JsFalse,
                                            history |-> <<>>]]
  /\ UNCHANGED <<analyzerVars, managerVars, samplingHistory, sampling, transformerVars>>

\* the loop goes on: handleSamplingRequest up to its await of
\* generateIntelligentResponse
WorkflowSample ==
  /\ orchestration.pc = "loop"
  /\ LoopContinues(orchestration.workflowState)
  /\ LET request == PrepareRequest(WorkflowRequest(orchestration.workflowName,
                                                   orchestration.workflowState,
                                                   orchestration.availableTools),
                                   orchestration.context, config)
     IN /\ samplingHistory' = trackSamplingRequest(samplingHistory, request,
                                                   orchestration.context)
        /\ orchestration' = ("request" :> request) @@
                            [orchestration EXCEPT !.pc = "sampling"]
  /\ UNCHANGED <<analyzerVars, managerVars, sampling, transformerVars>>

\* the rest of handleSamplingRequest, JSON.parse of the answer and the
\* call of executeWorkflowAction
WorkflowDecide ==
  /\ orchestration.pc = "sampling"
  /\ LET samplingResult == SamplingResultOf(orchestration.request, config)
         decision == JSONparse(TextOrEmptyObject(samplingResult.text))
     IN /\ samplingHistory' = trackSamplingResult(samplingHistory, samplingResult,
                                                  orchestration.context)
        /\ orchestration' =
             IF IsThrown(decision)
             THEN ("threw" :> decision.threw) @@ [orchestration EXCEPT !.pc = "threw"]
             ELSE ("decision" :> decision.parsed) @@
                  [orchestration EXCEPT !.pc = "executing"]
  /\ UNCHANGED <<analyzerVars, managerVars, sampling, transformerVars>>

\* the rest of the loop body once executeWorkflowAction has answered
WorkflowAdvance ==
  /\ orchestration.pc = "executing"
  /\ orchestration' =
       [orchestration EXCEPT
          !.pc = "loop",
          !.workflowState = AdvanceWorkflow(@, orchestration.decision)]
  /\ UNCHANGED <<analyzerVars, managerVars, samplingHistory, sampling, transformerVars>>

\* the loop ends and workflowState is returned
WorkflowReturn ==
  /\ orchestration.pc = "loop"
  /\ ~LoopContinues(orchestration.workflowState)
  /\ orchestration' = [orchestration EXCEPT !.pc = "returned"]
  /\ UNCHANGED <<analyzerVars, managerVars, samplingHistory, sampling, transformerVars>>

NextWorkflow ==
  \/ StartWorkflow
  \/ WorkflowSample
  \/ WorkflowDecide
  \/ WorkflowAdvance
  \/ WorkflowReturn

\* one call of orchestrateWorkflow; the event loop runs every continuation
\* that is ready
SpecWorkflow == InitRoots /\ [][NextWorkflow]_vars /\ WF_vars(NextWorkflow)

\* ------------------------------------------------------------------------
\* handleSamplingRequest as a state machine
\* ------------------------------------------------------------------------
\* a sampling/createMessage request: handleSamplingRequest with the current
\* context, up to its await of generateIntelligentResponse
BeginSampling(c) ==
  /\ sampling[c].pc = "idle"
  /\ \E params \in SamplingRequests :
       LET request == PrepareRequest(params, activeContext, config)
       IN /\ samplingHistory' = trackSamplingRequest(samplingHistory, request,
                                                     activeContext)
          /\ sampling' = [sampling EXCEPT ![c] = [pc |-> "awaiting",
                                                  request |-> request,
                                                  context |-> activeContext]]
  /\ UNCHANGED <<analyzerVars, managerVars, orchestration, transformerVars>>

\* the rest of handleSamplingRequest
FinishSampling(c) ==
  /\ sampling[c].pc = "awaiting"
  /\ LET samplingResult == SamplingResultOf(sampling[c].request, config)
     IN /\ samplingHistory' = trackSamplingResult(samplingHistory, samplingResult,
                                                  sampling[c].context)
        /\ sampling' = [sampling EXCEPT ![c] = ("result" :> samplingResult) @@
                                               [@ EXCEPT !.pc = "returned"]]
  /\ UNCHANGED <<analyzerVars, managerVars, orchestration, transformerVars>>

\* the components after construction, the transformer with any of the
\* configurations
InitSampling ==
  /\ AnalyzerInit({Undefined})
  /\ ManagerInit
  /\ EngineInit
  /\ TransformerInit(Configs)

NextSampling ==
  \/ \E c \in Calls : BeginSampling(c)
  \/ \E c \in Calls : FinishSampling(c)

\* sampling requests of one session handled concurrently
SpecSampling == InitSampling /\ [][NextSampling]_vars

\* ------------------------------------------------------------------------
\* The roots/listChanged handler as a state machine
\* ------------------------------------------------------------------------
\* the end of updateRoots: detectEnvironment and updateCapabilities
FinishRoots(context) == updateCapabilities(detectEnvironment(context))

\* a roots/listChanged notification: the handler calls updateRoots, which
\* replaces the roots and runs up to its first await
ReceiveNotification(h) ==
  /\ handlers[h].pc = "idle"
  /\ \E roots \in RootLists :
       LET replaced == [activeContext EXCEPT !.roots = roots]
       IN IF roots = <<>>
          THEN /\ activeContext' = FinishRoots(replaced)
               /\ handlers' = [handlers EXCEPT ![h] =
                                 [pc |-> "updated", roots |-> roots, rest |-> <<>>]]
          ELSE /\ activeContext' = processRoot(replaced, Head(roots))
               /\ handlers' = [handlers EXCEPT ![h] =
                                 [pc |-> "processing", roots |-> roots,
                                  rest |-> Tail(roots)]]
  /\ updates' = updates + 1
  /\ UNCHANGED <<analyzerVars, engineVars, config, analyses>>

\* updateRoots resumes after the await of processRoot: the next root, or
\* the end of the call
ContinueRoots(h) ==
  /\ handlers[h].pc = "processing"
  /\ IF handlers[h].rest = <<>>
     THEN /\ activeContext' = FinishRoots(activeContext)
          /\ handlers' = [handlers EXCEPT ![h].pc = "updated"]
     ELSE /\ activeContext' = processRoot(activeContext, Head(handlers[h].rest))
          /\ handlers' = [handlers EXCEPT ![h].rest = Tail(@)]
  /\ UNCHANGED <<analyzerVars, engineVars, updates, config, analyses>>

\* the handler resumes after the await of updateRoots: adaptToNewRoots
\* calls analyzeWithContext with the current context when the
\* configuration asks for it
AdaptToNewRoots(h) ==
  /\ handlers[h].pc = "updated"
  /\ handlers' = [handlers EXCEPT ![h].pc = "done"]
  /\ analyses' = IF Truthy(RootBasedCapabilities(config))
                 THEN Append(analyses, [handler |-> h, context |-> activeContext])
                 ELSE analyses
  /\ UNCHANGED <<analyzerVars, engineVars, managerVars, config>>

NextNotifications ==
  \/ \E h \in Handlers : ReceiveNotification(h)
  \/ \E h \in Handlers : ContinueRoots(h)
  \/ \E h \in Handlers : AdaptToNewRoots(h)

\* roots/listChanged notifications whose handlers run concurrently
SpecNotifications == InitSampling /\ [][NextNotifications]_vars

\* ------------------------------------------------------------------------
\* Properties
\* ------------------------------------------------------------------------
\* the models returned so far
Returned == Range(models)

\* the endpoints of the models returned so far
ReturnedEndpoints == UNION {Range(m.endpoints) : m \in Returned}

\* the methods section 4.1 of the specification recognizes
RecognizedMethods == {"GET", "POST", "PUT", "DELETE", "PATCH"}

\* the summary of the operation contains one of the words, ignoring case;
\* an operation without a summary contains none
SummaryMentions(operation, words) ==
  /\ "summary" \in DOMAIN operation
  /\ \E w \in words : Includes(toLowerCase(operation.summary), <<w>>)

\* C1: after a call on a document that is not an object, or that has no
\* paths section, the call has failed with the error 'invalid specification
\* document' and no model has been returned.
C1_InvalidDocumentFailsFast ==
  (result.call # "none" /\ (spec.jstype # "object" \/ "paths" \notin DOMAIN spec))
    => /\ "threw" \in DOMAIN result
       /\ result.threw = "invalid specification document"
       /\ models = <<>>

\* C2: a call of analyze() on a document that is an object returns a
\* model, whichever optional sections and optional parts of an operation are
\* absent.
C2_ObjectDocumentNeverFails ==
  (result.call = "analyze" /\ spec.jstype = "object")
    => "returned" \in DOMAIN result

\* C3: every endpoint of a returned model comes from an entry of the paths
\* whose key is get, post, put, delete or patch in any letter case and which
\* has a summary, a description or responses; its method is that key
\* upper-cased and so is one of GET, POST, PUT, DELETE, PATCH.
C3_EndpointMethodsRecognized ==
  \A e \in ReturnedEndpoints :
    /\ e.method \in RecognizedMethods
    /\ \E entry \in Range(PathEntries(SpecPaths(spec))) :
         /\ entry.path = e.path
         /\ entry.operation = e.operation
         /\ UpperTok(entry.method) = e.method
         /\ DOMAIN entry.operation \cap {"summary", "description", "responses"} # {}

\* C4: isAction of every endpoint is true when its method is POST, PUT,
\* PATCH or DELETE or its summary contains create, update or delete ignoring
\* case, and is false otherwise.
C4_IsActionExact ==
  \A e \in ReturnedEndpoints :
    e.isAction =
      JsBool(\/ e.method \in {"POST", "PUT", "PATCH", "DELETE"}
             \/ SummaryMentions(e.operation, {"create", "update", "delete"}))

\* C5: isResource of every endpoint is true exactly when its method is GET
\* and its summary does not contain trigger, send or execute ignoring case;
\* a GET without a summary is a resource, an endpoint of another method is
\* not.
C5_IsResourceExact ==
  \A e \in ReturnedEndpoints :
    e.isResource =
      (/\ e.method = "GET"
       /\ ~SummaryMentions(e.operation, {"trigger", "send", "execute"}))

\* C5 witness: a GET endpoint whose summary says SEND has been scanned and
\* is not a resource, and so has a GET endpoint without a summary that is.
C5_Witness ==
  \E e \in ReturnedEndpoints :
    /\ e.method = "GET"
    /\ "summary" \in DOMAIN e.operation
    /\ Includes(e.operation.summary, <<"SEND">>)
    /\ ~e.isResource

\* the signals of the complexity score of an operation
Bit(b) == IF b THEN 1 ELSE 0
DeclaresBody(operation) == "requestBody" \in DOMAIN operation
JsonBodyProperties(operation) ==
  IF /\ DeclaresBody(operation)
     /\ "content" \in DOMAIN operation.requestBody
     /\ "application/json" \in DOMAIN operation.requestBody.content
     /\ "schema" \in DOMAIN operation.requestBody.content["application/json"]
     /\ "properties" \in
          DOMAIN operation.requestBody.content["application/json"].schema
  THEN Len(operation.requestBody.content["application/json"].schema.properties)
  ELSE 0

\* the score of section 4.1 of the specification
ComplexityScore(operation) ==
  1 + (ParamCount(operation) \div 3)
    + Bit(DeclaresBody(operation))
    + Bit(JsonBodyProperties(operation) > 5)
    + Bit(ResponseCount(operation) > 3)

\* operation b has every signal of operation a
AddsSignals(a, b) ==
  /\ ParamCount(a) <= ParamCount(b)
  /\ DeclaresBody(a) => DeclaresBody(b)
  /\ JsonBodyProperties(a) <= JsonBodyProperties(b)
  /\ ResponseCount(a) <= ResponseCount(b)

\* operations a and b differ only in their responses
SameButResponses(a, b) ==
  /\ ParamCount(a) = ParamCount(b)
  /\ DeclaresBody(a) = DeclaresBody(b)
  /\ DeclaresBody(a) => a.requestBody = b.requestBody

\* C6: the complexity of every endpoint is 1 + floor(parameters / 3) + 1
\* for a request body + 1 for a JSON body schema of more than 5 properties
\* + 1 for more than 3 responses; it is at least 1, does not decrease when
\* signals are added, and more than 3 responses score exactly 1 more than
\* at most 3.
C6_ComplexityFormula ==
  /\ \A e \in ReturnedEndpoints :
       /\ e.complexity = ComplexityScore(e.operation)
       /\ e.complexity >= 1
  /\ \A a, b \in ReturnedEndpoints :
       /\ AddsSignals(a.operation, b.operation) => a.complexity <= b.complexity
       /\ (/\ SameButResponses(a.operation, b.operation)
           /\ ResponseCount(a.operation) <= 3
           /\ ResponseCount(b.operation) > 3)
            => b.complexity = a.complexity + 1

\* C6 witness: one model holds two endpoints that differ only in having 3
\* and 4 responses, the second with every signal present.
C6_Witness ==
  \E a, b \in ReturnedEndpoints :
    /\ SameButResponses(a.operation, b.operation)
    /\ ResponseCount(a.operation) = 3
    /\ ResponseCount(b.operation) = 4
    /\ ParamCount(b.operation) >= 6
    /\ JsonBodyProperties(b.operation) > 5
    /\ b.complexity = 6

\* C7: hasTools of every returned model is true exactly when one of its
\* endpoints is an action or has a complexity above 2.
C7_HasToolsExact ==
  \A m \in Returned :
    m.hasTools = (\E e \in Range(m.endpoints) :
                    Truthy(e.isAction) \/ e.complexity > 2)

\* C7 witness: a returned model has tools because of the complexity of its
\* first endpoint alone: no endpoint is an action and its last endpoint has
\* a complexity of at most 2.
C7_Witness ==
  \E m \in Returned :
    /\ m.hasTools
    /\ Len(m.endpoints) = 2
    /\ \A e \in Range(m.endpoints) : ~Truthy(e.isAction)
    /\ m.endpoints[1].complexity > 2
    /\ m.endpoints[2].complexity <= 2

\* C8: no relationship of a returned model goes from a schema to itself,
\* and no resource lists its own name among its relationships.
C8_NoSelfRelationship ==
  \A m \in Returned :
    /\ \A r \in Range(m.relationships) : r.from # r.to
    /\ \A res \in Range(m.resources) : res.name \notin Range(res.relationships)

\* a property schema that refers to the schema called name, directly or
\* through array items
RefersTo(propSchema, name) ==
  \/ /\ "ref" \in DOMAIN propSchema
     /\ propSchema.ref = <<SchemasPointer>> \o name
  \/ /\ "type" \in DOMAIN propSchema /\ propSchema.type = "array"
     /\ "items" \in DOMAIN propSchema /\ "ref" \in DOMAIN propSchema.items
     /\ propSchema.items.ref = <<SchemasPointer>> \o name

\* C8 witness: a model has been returned for a schema with a property that
\* refers to its own schema through array items and another property that
\* refers to another schema, which is its only relationship.
C8_Witness ==
  \E m \in Returned : \E res \in Range(m.resources) :
    /\ "properties" \in DOMAIN res.schema
    /\ Len(res.schema.properties) = 2
    /\ RefersTo(res.schema.properties[1][2], <<"Order">>)
    /\ "items" \in DOMAIN res.schema.properties[2][2]
    /\ RefersTo(res.schema.properties[2][2], res.name)
    /\ res.relationships = << <<"Order">> >>
    /\ Len(m.relationships) >= 1

\* the names of the schemas of the document
SchemaNames == {SpecSchemas(spec)[i][1] : i \in 1..Len(SpecSchemas(spec))}

\* C9: the to of every relationship of a returned model names a schema of
\* components.schemas; a reference to a name that is not a schema produces
\* no relationship.
C9_RelationshipTargetsDefined ==
  \A m \in Returned :
    \A r \in Range(m.relationships) : r.to \in SchemaNames

\* the pointer is a schema reference
IsSchemaPointer(ref) == \E i \in 1..(Len(ref) - 1) : ref[i] = SchemasPointer

\* the final path segment of a pointer: what follows its last slash
LastSegment(ref) ==
  LET slashes == {i \in 1..Len(ref) :
                    ref[i] \in {"/", SchemasPointer, "#/definitions/",
                                "#/components/parameters/"}}
      last == IF slashes = {} THEN 0
              ELSE CHOOSE i \in slashes : \A j \in slashes : j <= i
  IN SubSeq(ref, last + 1, Len(ref))

\* the target names of one property: of its reference pointer, then of the
\* reference pointer of its array items
PropertyTargets(propSchema) ==
  (IF "ref" \in DOMAIN propSchema /\ IsSchemaPointer(propSchema.ref)
   THEN <<LastSegment(propSchema.ref)>> ELSE <<>>)
  \o
  (IF /\ "type" \in DOMAIN propSchema /\ propSchema.type = "array"
      /\ "items" \in DOMAIN propSchema /\ "ref" \in DOMAIN propSchema.items
      /\ IsSchemaPointer(propSchema.items.ref)
   THEN <<LastSegment(propSchema.items.ref)>> ELSE <<>>)

\* the relationship list section 4.2 of the specification gives a schema
ExpectedRelationships(name, schema) ==
  LET targets ==
        IF "properties" \in DOMAIN schema
        THEN Flatten([i \in 1..Len(schema.properties) |->
                        PropertyTargets(schema.properties[i][2])])
        ELSE <<>>
  IN Dedupe(SelectSeq(targets, LAMBDA t : t # name))

\* C10: the relationship list of every schema is the target names of its
\* direct properties that are a reference pointer or an array of one, each
\* the final path segment of its pointer, without the name of the schema
\* itself, once each in order of first occurrence.
C10_RelationshipListExact ==
  \A m \in Returned : \A res \in Range(m.resources) :
    res.relationships = ExpectedRelationships(res.name, res.schema)

\* the reference of the property schema, direct or of its array items,
\* resolves to the schema called target
ResolvesTo(propSchema, target) ==
  \/ /\ "ref" \in DOMAIN propSchema
     /\ extractRefName(propSchema.ref) = target
  \/ /\ "type" \in DOMAIN propSchema /\ propSchema.type = "array"
     /\ "items" \in DOMAIN propSchema /\ "ref" \in DOMAIN propSchema.items
     /\ extractRefName(propSchema.items.ref) = target

\* the relationship type section 4.2 of the specification gives a property
\* name
TypeOfPropertyName(propName) ==
  IF EndsWith(propName, <<"Id">>) \/ EndsWith(propName, <<"_id">>)
  THEN "belongs_to"
  ELSE IF EndsWith(propName, <<"s">>) \/ EndsWith(propName, <<"List">>)
       THEN "has_many"
       ELSE "has_one"

\* the relationship types section 4.2 allows from the schema to target: the
\* type of a property that resolves to target, unknown when there is none
AllowedTypes(schema, target) ==
  LET properties ==
        IF "properties" \in DOMAIN schema THEN schema.properties ELSE <<>>
      resolving == {i \in 1..Len(properties) :
                      ResolvesTo(properties[i][2], target)}
  IN IF resolving = {} THEN {"unknown"}
     ELSE {TypeOfPropertyName(properties[i][1]) : i \in resolving}

\* C11: the type of every relationship is decided by the name of a property
\* of the source schema whose reference, direct or array-item, resolves to
\* the target: belongs_to for a name ending in Id or _id, else has_many for
\* a name ending in s or List, else has_one, and unknown when no property
\* resolves to the target.
C11_TypeFromResolvingProperty ==
  \A m \in Returned : \A res \in Range(m.resources) :
    \A r \in Range(m.relationships) :
      r.from = res.name => r.type \in AllowedTypes(res.schema, r.to)

\* the first path segments of the endpoints of a model
SegmentGroups(m) == {FirstSegment(e.path) : e \in Range(m.endpoints)} \ {Null}

\* the methods of the endpoints of a model under one first segment
GroupMethods(m, segment) ==
  {e.method : e \in {x \in Range(m.endpoints) : FirstSegment(x.path) = segment}}

\* the group has all of GET, POST, PUT and DELETE
IsCrudGroup(m, segment) ==
  {"GET", "POST", "PUT", "DELETE"} \subseteq GroupMethods(m, segment)

\* the positions of the workflows of a model that have the given type
WorkflowsOfType(m, type) == {i \in 1..Len(m.workflows) : m.workflows[i].type = type}

\* the positions of the workflows of a model that have the given name
WorkflowsNamed(m, name) == {i \in 1..Len(m.workflows) : m.workflows[i].name = name}

\* the actions of the steps of a workflow, in order
StepActions(workflow) == [k \in 1..Len(workflow.steps) |-> workflow.steps[k].action]

\* the document has exactly the paths /widgets (get, post) and
\* /widgets/{id} (get, put, delete)
IsWidgetsDocument ==
  /\ spec.jstype = "object"
  /\ "paths" \in DOMAIN spec
  /\ [i \in 1..Len(spec.paths) |->
        <<spec.paths[i][1],
          [k \in 1..Len(spec.paths[i][2]) |-> spec.paths[i][2][k][1]]>>]
       = << <<<<"/", "widgets">>, <<"get", "post">>>>,
            <<<<"/", "widgets", "/", "{id}">>, <<"get", "put", "delete">>>> >>

\* C12: in every returned model, each first-segment group of the endpoints
\* whose methods include GET, POST, PUT and DELETE has exactly one workflow
\* named '<segment>_crud', which has type crud and the steps list, create,
\* read, update, delete in that order; every workflow of type crud belongs
\* to such a group; and for the paths /widgets (GET, POST) and /widgets/{id}
\* (GET, PUT, DELETE) the crud workflows are exactly one, widgets_crud.
C12_CrudPerGroup ==
  \A m \in Returned :
    /\ \A segment \in SegmentGroups(m) :
         IsCrudGroup(m, segment) =>
           /\ Cardinality({i \in WorkflowsOfType(m, "crud") :
                             m.workflows[i].name = segment \o <<"_crud">>}) = 1
           /\ \A i \in WorkflowsNamed(m, segment \o <<"_crud">>) :
                m.workflows[i].type = "crud" =>
                  StepActions(m.workflows[i])
                    = <<"list", "create", "read", "update", "delete">>
    /\ \A i \in WorkflowsOfType(m, "crud") :
         \E segment \in SegmentGroups(m) :
           /\ IsCrudGroup(m, segment)
           /\ m.workflows[i].name = segment \o <<"_crud">>
    /\ IsWidgetsDocument =>
         /\ Cardinality(WorkflowsOfType(m, "crud")) = 1
         /\ \A i \in WorkflowsOfType(m, "crud") :
              m.workflows[i].name = <<"widgets", "_crud">>

\* a model of the widgets document has been returned with its one crud
\* workflow
C12_Witness ==
  /\ IsWidgetsDocument
  /\ \E m \in Returned :
       /\ Cardinality(WorkflowsOfType(m, "crud")) = 1
       /\ \E i \in WorkflowsOfType(m, "crud") :
            /\ m.workflows[i].name = <<"widgets", "_crud">>
            /\ Len(m.workflows[i].steps) = 5

\* the operation declares a parameter named page, limit, offset or cursor,
\* ignoring case
DeclaresPaginationParameter(operation) ==
  /\ "parameters" \in DOMAIN operation
  /\ \E k \in 1..Len(operation.parameters) :
       /\ "name" \in DOMAIN operation.parameters[k]
       /\ toLowerCase(operation.parameters[k].name)
            \in {<<"page">>, <<"limit">>, <<"offset">>, <<"cursor">>}

\* some operation of the document declares a pagination parameter
DocumentIsPaginated ==
  \E entry \in Range(PathEntries(SpecPaths(spec))) :
    /\ isOperation(entry.operation)
    /\ DeclaresPaginationParameter(entry.operation)

\* C13: a call of analyze() on a document in which some operation declares
\* a parameter named page, limit, offset or cursor (ignoring case) returns a
\* model with hasPagination true and exactly one workflow named pagination,
\* whose steps are initial request, check more, fetch next, aggregate; a
\* model returned for a document without such a parameter has hasPagination
\* false and no workflow named pagination.
C13_PaginationExact ==
  (result.call = "analyze" /\ spec.jstype = "object") =>
    IF DocumentIsPaginated
    THEN /\ "returned" \in DOMAIN result
         /\ LET m == models[result.returned]
            IN /\ m.capabilities.hasPagination
               /\ Cardinality(WorkflowsNamed(m, <<"pagination">>)) = 1
               /\ \A i \in WorkflowsNamed(m, <<"pagination">>) :
                    StepActions(m.workflows[i])
                      = <<"initial_request", "check_more", "fetch_next", "aggregate">>
    ELSE "returned" \in DOMAIN result =>
           LET m == models[result.returned]
           IN /\ ~m.capabilities.hasPagination
              /\ WorkflowsNamed(m, <<"pagination">>) = {}

\* the endpoints of a model whose path contains 'auth', 'login' or 'token'
AuthEndpoints(m) ==
  {i \in 1..Len(m.endpoints) :
     \E word \in {"auth", "login", "token"} : Includes(m.endpoints[i].path, <<word>>)}

\* the media types the request body of an operation declares
DeclaredMediaTypes(operation) ==
  IF "requestBody" \in DOMAIN operation /\ "content" \in DOMAIN operation.requestBody
  THEN DOMAIN operation.requestBody.content
  ELSE {}

\* the media types of the documents that are multipart media types
MultipartMediaTypes == {"multipart/form-data", "multipart/mixed"}

\* the endpoints of a model whose request body declares one of the media
\* types
UploadEndpoints(m, mediaTypes) ==
  {i \in 1..Len(m.endpoints) :
     DeclaredMediaTypes(m.endpoints[i].operation) \cap mediaTypes # {}}

\* the model has one workflow of the type, with the steps, when the trigger
\* holds and none otherwise
EmittedOnceWhen(m, type, trigger, actions) ==
  /\ Cardinality(WorkflowsOfType(m, type)) = IF trigger THEN 1 ELSE 0
  /\ \A i \in WorkflowsOfType(m, type) : StepActions(m.workflows[i]) = actions

\* C14 as stated: in every returned model there is exactly one auth
\* workflow when some endpoint path contains 'auth', 'login' or 'token', and
\* exactly one file-upload workflow when some operation's request body
\* declares a multipart media type, and none otherwise, each with its four
\* steps in order.
C14_AuthAndUploadOnce_AnyMultipart ==
  \A m \in Returned :
    /\ EmittedOnceWhen(m, "auth", AuthEndpoints(m) # {},
                       <<"authenticate", "validate", "authorize", "refresh">>)
    /\ EmittedOnceWhen(m, "multipart", UploadEndpoints(m, MultipartMediaTypes) # {},
                       <<"prepare", "validate", "upload", "verify">>)

\* C14 as amended: in every returned model there is exactly one auth
\* workflow when some endpoint path contains 'auth', 'login' or 'token', and
\* exactly one file-upload workflow when some operation's request body
\* declares the media type multipart/form-data, and none otherwise, each
\* with its four steps in order, however many endpoints match.
C14_AuthAndUploadOnce ==
  \A m \in Returned :
    /\ EmittedOnceWhen(m, "auth", AuthEndpoints(m) # {},
                       <<"authenticate", "validate", "authorize", "refresh">>)
    /\ EmittedOnceWhen(m, "multipart", UploadEndpoints(m, {"multipart/form-data"}) # {},
                       <<"prepare", "validate", "upload", "verify">>)

\* a returned model with several endpoints on auth paths and an upload
\* endpoint has one auth workflow and one file-upload workflow
C14_Witness ==
  \E m \in Returned :
    /\ Cardinality(AuthEndpoints(m)) >= 2
    /\ UploadEndpoints(m, {"multipart/form-data"}) # {}
    /\ Cardinality(WorkflowsOfType(m, "auth")) = 1
    /\ Cardinality(WorkflowsOfType(m, "multipart")) = 1

\* the workflow types of WorkflowPattern
WorkflowTypes == {"crud", "auth", "pagination", "multipart", "async", "custom"}

\* C15: in every model returned by analyze(), the type of every workflow
\* is one of crud, auth, pagination, multipart, async, custom.
C15_WorkflowTypeDeclared ==
  \A m \in Returned :
    \A i \in 1..Len(m.workflows) : m.workflows[i].type \in WorkflowTypes

\* C16: in every model returned by analyze(), no two workflows have the
\* same name and every workflow has at least one step, also when the first
\* segment of the paths of a CRUD group is 'authentication', 'pagination' or
\* 'fileUpload'.
C16_WorkflowNamesUnique ==
  \A m \in Returned :
    /\ \A i, j \in 1..Len(m.workflows) :
         m.workflows[i].name = m.workflows[j].name => i = j
    /\ \A i \in 1..Len(m.workflows) : Len(m.workflows[i].steps) >= 1

\* a returned model has the crud workflow of the group 'authentication'
\* next to the auth workflow
C16_Witness ==
  \E m \in Returned :
    /\ IsCrudGroup(m, <<"auth", "entication">>)
    /\ WorkflowsNamed(m, <<"auth", "entication", "_crud">>) # {}
    /\ WorkflowsNamed(m, <<"auth", "entication">>) # {}

\* the status codes of the documents that begin with 4 or 5
ErrorStatusCodes == {"400", "401", "404", "429", "4XX", "500", "503", "504", "5XX"}

\* the status codes an endpoint declares, in order
DeclaredStatusCodes(endpoint) ==
  IF "responses" \in DOMAIN endpoint.operation
  THEN [k \in 1..Len(endpoint.operation.responses) |->
          endpoint.operation.responses[k][1]]
  ELSE <<>>

\* '<METHOD> <path>' of an endpoint
Signature(endpoint) == <<endpoint.method, " ">> \o endpoint.path

\* status code and signature of the error responses of an endpoint, in
\* order
ExpectedErrors(endpoint) ==
  LET codes == SelectSeq(DeclaredStatusCodes(endpoint),
                         LAMBDA c : c \in ErrorStatusCodes)
  IN [k \in 1..Len(codes) |-> <<codes[k], Signature(endpoint)>>]

\* C17: the error patterns of every returned model are, endpoint by
\* endpoint and response by response, one pattern for each declared response
\* whose status code begins with 4 or 5, carrying that status code and the
\* signature '<METHOD> <path>' of the declaring endpoint, and no others; so
\* every pattern's status code is a 4xx or 5xx code.
C17_ErrorPatternPerErrorResponse ==
  \A m \in Returned :
    /\ [k \in 1..Len(m.errorPatterns) |->
          <<m.errorPatterns[k].statusCode, m.errorPatterns[k].endpoint>>]
         = Flatten([i \in 1..Len(m.endpoints) |-> ExpectedErrors(m.endpoints[i])])
    /\ \A k \in 1..Len(m.errorPatterns) :
         m.errorPatterns[k].statusCode \in ErrorStatusCodes

\* a returned model has an endpoint that declares a 2xx response, a 4xx
\* response, a 5xx response and a default response, and two error patterns
C17_Witness ==
  \E m \in Returned :
    /\ \E i \in 1..Len(m.endpoints) :
         {"200", "404", "503", "default"} \subseteq Range(DeclaredStatusCodes(m.endpoints[i]))
    /\ Len(m.errorPatterns) = 2
    /\ m.errorPatterns[1].endpoint = <<"GET", " ", "/", "pets">>

\* C18: in every returned model, every error pattern's recoverable is the
\* boolean true when its status code is 429, 503 or 504 or its description
\* contains 'retry' ignoring case, and the boolean false otherwise, also
\* when the response has no description.
C18_RecoverableIsBoolean ==
  \A m \in Returned :
    \A k \in 1..Len(m.errorPatterns) :
      LET pattern == m.errorPatterns[k]
      IN pattern.recoverable
           = IF \/ pattern.statusCode \in {"429", "503", "504"}
                \/ Includes(toLowerCase(pattern.description), <<"retry">>)
             THEN JsTrue
             ELSE JsFalse

\* the security schemes the document declares, in order
DeclaredSecuritySchemes ==
  IF "components" \in DOMAIN spec /\ "securitySchemes" \in DOMAIN spec.components
  THEN spec.components.securitySchemes
  ELSE <<>>

\* C19: in every returned model, capabilities.hasAuthentication is true
\* exactly when the document declares at least one security scheme; it is
\* false without a securitySchemes section and with a section that has no
\* entries.
C19_HasAuthenticationExact ==
  \A m \in Returned :
    m.capabilities.hasAuthentication = (Len(DeclaredSecuritySchemes) >= 1)

\* the optional flag of a model holds: it is present and true
FlagHolds(m, flag) == flag \in DOMAIN m /\ m[flag] = TRUE

\* C20: in every model returned by analyze(), requiresSampling holds
\* exactly when the model has more than 2 workflows or its
\* capabilities.hasAsyncOperations is true, requiresContextManagement holds
\* exactly when it has more than 3 relationship records, and
\* requiresErrorIntelligence holds exactly when it has more than 5 error
\* patterns.
C20_FeatureThresholds ==
  \A i \in 1..Len(models) :
    LET m == models[i]
    IN /\ FlagHolds(m, "requiresSampling")
            <=> (Len(m.workflows) > 2 \/ m.capabilities.hasAsyncOperations)
       /\ FlagHolds(m, "requiresContextManagement") <=> Len(m.relationships) > 3
       /\ FlagHolds(m, "requiresErrorIntelligence") <=> Len(m.errorPatterns) > 5

\* a returned model has 3 workflows and no asynchronous operation, 4
\* relationship records and 6 error patterns, and all three flags
C20_Witness ==
  \E m \in Returned :
    /\ Len(m.workflows) = 3
    /\ ~m.capabilities.hasAsyncOperations
    /\ Len(m.relationships) = 4
    /\ Len(m.errorPatterns) = 6
    /\ FlagHolds(m, "requiresSampling")
    /\ FlagHolds(m, "requiresContextManagement")
    /\ FlagHolds(m, "requiresErrorIntelligence")

\* some root of the context has a display name that contains 'test'; a
\* context without roots has none
HasTestRoot(context) ==
  /\ "roots" \in DOMAIN context
  /\ \E k \in 1..Len(context.roots) :
       /\ "name" \in DOMAIN context.roots[k]
       /\ Includes(context.roots[k].name, <<"test">>)

\* the optional capability flag of a model is set
CapabilitySet(m, flag) ==
  flag \in DOMAIN m.capabilities /\ m.capabilities[flag] = TRUE

\* C21: a model returned by analyzeWithContext(context) has
\* capabilities.requiresStrictValidation true when context.environment is
\* 'production' and capabilities.hasTestMode true when some root's display
\* name contains 'test'; with neither condition, also with roots absent, it
\* has neither flag and, when the call before it was analyze(), the same
\* content as the model that call returned.
C21_ContextOverlay ==
  [][ (result'.call = "analyzeWithContext" /\ "returned" \in DOMAIN result') =>
        LET context == result'.context
            m == models'[result'.returned]
        IN /\ context.environment = "production"
                => CapabilitySet(m, "requiresStrictValidation")
           /\ HasTestRoot(context) => CapabilitySet(m, "hasTestMode")
           /\ (context.environment # "production" /\ ~HasTestRoot(context)) =>
                /\ "requiresStrictValidation" \notin DOMAIN m.capabilities
                /\ "hasTestMode" \notin DOMAIN m.capabilities
                /\ (result.call = "analyze" /\ "returned" \in DOMAIN result)
                     => m = models[result.returned]
    ]_vars

\* analyzeWithContext has returned a model for a production context with a
\* root named after tests, with both flags
C21_Witness ==
  /\ result.call = "analyzeWithContext"
  /\ "returned" \in DOMAIN result
  /\ result.context.environment = "production"
  /\ HasTestRoot(result.context)
  /\ CapabilitySet(models[result.returned], "requiresStrictValidation")
  /\ CapabilitySet(models[result.returned], "hasTestMode")

WorkflowRank(workflow) ==
  CASE workflow.type = "crud" -> 1
    [] workflow.name = <<"auth", "entication">> -> 2
    [] workflow.name = <<"pagination">> -> 3
    [] workflow.name = <<"fileUpload">> -> 4
    [] OTHER -> 5

\* the workflows of a model are ordered crud groups first, then auth,
\* pagination, file upload
WorkflowsOrdered(m) ==
  \A i, j \in 1..Len(m.workflows) :
    i < j => WorkflowRank(m.workflows[i]) <= WorkflowRank(m.workflows[j])

DocumentIsEmpty ==
  /\ spec.jstype = "object"
  /\ SpecPaths(spec) = <<>>
  /\ SpecSchemas(spec) = <<>>

\* the model of a document without evidence: the three feature flags
\* false, the six capability flags present and false, all collections empty
IsBlankModel(m) ==
  /\ ~m.hasTools /\ ~m.hasResources /\ ~m.hasPrompts
  /\ {"hasPagination", "hasBatchOperations", "hasWebhooks", "hasAsyncOperations",
      "hasAuthentication", "hasRateLimiting"} \subseteq DOMAIN m.capabilities
  /\ ~m.capabilities.hasPagination
  /\ ~m.capabilities.hasBatchOperations
  /\ ~m.capabilities.hasWebhooks
  /\ ~m.capabilities.hasAsyncOperations
  /\ ~m.capabilities.hasAuthentication
  /\ ~m.capabilities.hasRateLimiting
  /\ m.endpoints = <<>> /\ m.resources = <<>> /\ m.workflows = <<>>
  /\ m.relationships = <<>> /\ m.errorPatterns = <<>>

\* C24 as stated: a call of analyze() on a document with zero schemas and
\* zero paths raises no error and returns a model with hasTools,
\* hasResources and hasPrompts false, every capability flag present and
\* false, and all collections empty.
C24_EmptyDocumentBlankModel_AnySections ==
  (result.call = "analyze" /\ DocumentIsEmpty) =>
    /\ "returned" \in DOMAIN result
    /\ IsBlankModel(models[result.returned])

\* C24 as amended: a call of analyze() on a document with zero schemas,
\* zero paths, no securitySchemes section and no webhooks section raises no
\* error and returns a model with hasTools, hasResources and hasPrompts
\* false, every capability flag present and false, and all collections
\* empty.
C24_EmptyDocumentBlankModel ==
  ( /\ result.call = "analyze"
    /\ DocumentIsEmpty
    /\ "webhooks" \notin DOMAIN spec
    /\ ~("components" \in DOMAIN spec /\ "securitySchemes" \in DOMAIN spec.components) ) =>
    /\ "returned" \in DOMAIN result
    /\ IsBlankModel(models[result.returned])

\* analyze() has returned the blank model for a document that has a paths
\* section without paths
C24_Witness ==
  /\ result.call = "analyze"
  /\ DocumentIsEmpty
  /\ "paths" \in DOMAIN spec
  /\ "webhooks" \notin DOMAIN spec
  /\ "components" \notin DOMAIN spec
  /\ "returned" \in DOMAIN result
  /\ IsBlankModel(models[result.returned])

\* C30: in every returned model, every relationship record has type
\* belongs_to, has_many or has_one, never unknown.
C30_RelationshipTypeKnown ==
  \A m \in Returned :
    \A k \in 1..Len(m.relationships) :
      m.relationships[k].type \in {"belongs_to", "has_many", "has_one"}

\* the environment of one root taken alone: that of its host for an http or
\* https root, "undefined" for any other root and for a host that matches
\* no environment
RootEnvironment(root) ==
  IF Head(root.uri) \in {"https://", "http://"}
  THEN HostEnvironment(Hostname(root.uri))
  ELSE "undefined"

\* the environment detected from the roots alone
EnvironmentOf(roots) ==
  LET environments == {RootEnvironment(roots[i]) : i \in 1..Len(roots)}
  IN IF "production" \in environments THEN "production"
     ELSE IF "staging" \in environments THEN "staging"
     ELSE IF "development" \in environments THEN "development"
     ELSE IF \E i \in 1..Len(roots) : Head(roots[i].uri) = "file://" THEN "local"
     ELSE "unknown"

\* C25: once a call updateRoots(R) has completed, the environment of the
\* active context is the one detected from the roots of R alone: production
\* if a root of R is detected as production, else staging, else
\* development, else local if R has a file:// root, else unknown; the roots
\* of earlier calls have no influence.
C25_EnvironmentFromCurrentRoots ==
  updates > 0 => activeContext.environment = EnvironmentOf(activeContext.roots)

\* the history holds the most recently tracked operations in call order,
\* ending with the latest one
HistoryIsRecentCalls ==
  LET history == activeContext.operationHistory
  IN /\ Len(history) <= updates
     /\ updates > 0 => Len(history) >= 1
     /\ \A k \in 1..Len(history) : history[k] = updates - Len(history) + k

\* C26: after any sequence of trackOperation calls the operationHistory of
\* the active context holds at most 100 entries, its entries are the most
\* recently tracked operations in call order, ending with the latest one,
\* and a call that appends to a history of 100 entries leaves its last 50
\* entries while any other call makes it one entry longer.
C26_HistoryBounded ==
  /\ [](Len(activeContext.operationHistory) <= HistoryLimit /\ HistoryIsRecentCalls)
  /\ [][ Len(activeContext'.operationHistory) =
           IF Len(activeContext.operationHistory) = HistoryLimit
           THEN HistoryKeep
           ELSE Len(activeContext.operationHistory) + 1 ]_managerVars

\* the history has been cut to its last 50 entries by the 101st call
C26_Witness ==
  /\ updates = HistoryLimit + 1
  /\ Len(activeContext.operationHistory) = HistoryKeep
  /\ activeContext.operationHistory[HistoryKeep] = HistoryLimit + 1

\* the workflow state orchestrateWorkflow holds
WorkflowStateBounded ==
  orchestration.pc # "idle" =>
    LET workflowState == orchestration.workflowState
    IN /\ workflowState.step <= maxSteps
       /\ Len(workflowState.history) = workflowState.step
       /\ \A k \in 1..Len(workflowState.history) :
            workflowState.history[k].step = k - 1

\* an iteration starts only while no decision has reported isComplete and
\* fewer than 20 steps were made; otherwise the call returns
WorkflowStopsWhenComplete ==
  orchestration.pc = "loop" =>
    IF \/ Truthy(orchestration.workflowState.completed)
       \/ orchestration.workflowState.step >= maxSteps
    THEN orchestration'.pc = "returned"
    ELSE orchestration'.pc = "sampling"

\* C27: orchestrateWorkflow always terminates, by returning or by throwing;
\* its loop makes at most 20 iterations and starts none once a decision
\* reported isComplete; the workflow state has step at most 20 and one
\* history entry per executed step, also when it is returned.
C27_WorkflowTerminates ==
  /\ []WorkflowStateBounded
  /\ [][WorkflowStopsWhenComplete]_orchestration
  /\ <>(orchestration.pc \in {"returned", "threw"})

\* a call has returned after 20 iterations
C27_Witness ==
  /\ orchestration.pc = "returned"
  /\ orchestration.workflowState.step = maxSteps
  /\ Len(orchestration.workflowState.history) = maxSteps


\* every entry of every session's sampling history holds the result
\* produced for the request recorded in it
EntriesHoldOwnResult ==
  \A sessionId \in DOMAIN samplingHistory :
    \A i \in 1..Len(samplingHistory[sessionId]) :
      LET entry == samplingHistory[sessionId][i]
      IN /\ "result" \in DOMAIN entry
         /\ entry.result = SamplingResultOf(entry.request, config)

\* C28: whatever the interleaving of concurrent handleSamplingRequest
\* calls of one session, once no call is awaiting its response every entry
\* of the session's sampling history holds the result produced for the
\* request recorded in that entry: none holds another request's result and
\* none is left without a result.
C28_EntriesHoldOwnResult ==
  (\A c \in Calls : sampling[c].pc # "awaiting") => EntriesHoldOwnResult


\* C29: in every run of the roots/listChanged handler the roots of the
\* context manager are replaced by the notification's roots before any
\* re-analysis of that run; analyzeWithContext is called only when
\* config.adaptive.rootBasedCapabilities is set, and the context it is
\* called with holds the roots of the notification of that run, also when
\* two notifications are handled concurrently.
C29_AnalysisSeesOwnRoots ==
  /\ \A i \in 1..Len(analyses) :
       /\ Truthy(RootBasedCapabilities(config))
       /\ handlers[analyses[i].handler].pc = "done"
       /\ analyses[i].context.roots = handlers[analyses[i].handler].roots
  /\ \A h \in Handlers :
       handlers[h].pc = "done" /\ Truthy(RootBasedCapabilities(config))
         => \E i \in 1..Len(analyses) : analyses[i].handler = h

====
